---- MODULE Spec2Model ----
(***************************************************************************)
(* Model of the video-editor-service job pipeline                          *)
(* (src/video-processing-api/lambda/main.py).                              *)
(*                                                                         *)
(* One invocation of handler(event, context) runs in a slot h \in Inst.    *)
(* Every call to an external collaborator (status store put, fetch,        *)
(* transform tool, artifact upload, presigning, queue send) is one step    *)
(* that either succeeds or raises.  Progress values are kept in tenths of  *)
(* a percent (1000 = 100.0), which is what round(pct, 1) can represent.    *)
(* Wall-clock fields (timestamp, started_at, enqueued_at, completed_at,    *)
(* failed_at) are left out of the records.                                 *)
(***************************************************************************)
EXTENDS Integers, Sequences, FiniteSets, TLC

\* ------------------------------------------------------------- bounds
MaxUrls == 2        \* longest video_urls list a request carries
MaxPosts == 2       \* POST requests per run
MaxForeign == 1     \* messages other producers put on the queue per run
MaxBatch == 2       \* records the queue hands to one invocation
MaxDup == 1         \* duplicate deliveries (at-least-once) per run
MaxFaults == 2      \* external calls that fail per run
MaxEvents == 3      \* requests, messages, duplicates and failures per run, together
MaxSaves == 2       \* status writes per run of the store on its own

\* ------------------------------------------------- program constants
PresignExpiry == 3600

None == "None"
\* download_url before _generate_presigned_url has returned
NoUrl == [key |-> <<"none", "none">>, expires |-> 0]
Inst == {"h1"}
\* a caller's job id whose text contains "/status/"; its segments between
\* slashes are x, status, zz
NestedId == "x/status/zz"
CallerIds == {"a", NestedId}
GenId(k) == "u" \o ToString(k)
AllIds == CallerIds \cup {GenId(k) : k \in 1..(MaxPosts + 1)}

\* remux counted among the operations that are queued
AsyncOps_withRemux == {"merge", "caption", "add-audio", "watermark", "overlay", "remux"}

AsyncOps == {"merge", "caption", "add-audio", "watermark", "overlay"}

\* Python truthiness of an optional string field
Truthy(x) == x # None

\* ----------------------------------------------------- _save_job_status
\* round-half-even of num/den to an integer (num >= 0, den > 0)
RoundHalfEven(num, den) ==
    LET q == num \div den
        r == num % den
    IN  IF 2 * r < den THEN q
        ELSE IF 2 * r > den THEN q + 1
        ELSE IF q % 2 = 0 THEN q ELSE q + 1

\* the rounding alone, without max(0.0, min(100.0, ...))
ClampRound_noClamp(p) == RoundHalfEven(10 * p[1], p[2])

\* max(0.0, min(100.0, float(progress))) then round(pct, 1), in tenths;
\* progress is the rational p[1] / p[2]
ClampRound(p) ==
    LET t == RoundHalfEven(10 * p[1], p[2])
    IN  IF p[1] < 0 THEN 0 ELSE IF p[1] > 100 * p[2] THEN 1000 ELSE t

\* the status_data dict; progress == None leaves the key out
StatusData(job_id, status, metadata, progress) ==
    LET base == [job_id |-> job_id, status |-> status, metadata |-> metadata]
    IN  IF progress = None THEN base
        ELSE base @@ [progress |-> ClampRound(progress)]

HasProgress(rec) == "progress" \in DOMAIN rec
Terminal(rec) == rec.status \in {"completed", "failed"}

\* ------------------------------------------------ _generate_presigned_url
GeneratePresignedUrl(key, expiration) == [key |-> key, expires |-> expiration]

\* ------------------------------------------------------------ plans
\* The straight-line body of each handler's try block, one entry per
\* external call, loops unrolled over the request's inputs.
St(status, metadata, progress) ==
    [k |-> "status", status |-> status, metadata |-> metadata, progress |-> progress]
Do(k) == [k |-> k]

RECURSIVE MergeDownloads(_, _)
MergeDownloads(i, n) ==
    IF i >= n THEN <<>>
    ELSE << Do("fetch"),
            St("downloading", [video_urls |-> n, videos_count |-> n, downloaded |-> i + 1],
               <<10 * n + 30 * (i + 1), n>>) >>
         \o MergeDownloads(i + 1, n)

RECURSIVE MergeNormalize(_, _)
MergeNormalize(i, n) ==
    IF i >= n THEN <<>>
    ELSE << Do("transform"),
            St("merging", [video_urls |-> n, videos_count |-> n, normalized |-> i + 1],
               <<45 * n + 50 * (i + 1), n>>) >>
         \o MergeNormalize(i + 1, n)

\* the completed record written before the artifact is uploaded
MergeTail_completedFirst(data) ==
    << Do("transform"),
       St("merging", [stage |-> "concat"], <<98, 1>>),
       St("completed", [video_urls |-> data.video_urls, videos_count |-> data.video_urls,
                        download_url |-> NoUrl], <<100, 1>>),
       Do("upload"),
       Do("presign") >>

MergeTail(data) ==
    << Do("transform"),
       St("merging", [stage |-> "concat"], <<98, 1>>),
       Do("upload"),
       Do("presign"),
       St("completed", [video_urls |-> data.video_urls, videos_count |-> data.video_urls,
                        download_url |-> NoUrl], <<100, 1>>) >>

\* the merge without the downloading write that opens the fetch loop
MergePlan_noDownloadStart(data) ==
    LET n == data.video_urls
    IN  << St("processing", [video_urls |-> n, videos_count |-> n], <<5, 1>>),
           Do("mkdir") >>
        \o MergeDownloads(0, n)
        \o << St("merging", [video_urls |-> n, videos_count |-> n], <<45, 1>>) >>
        \o MergeNormalize(0, n)
        \o MergeTail(data)

MergePlan(data) ==
    LET n == data.video_urls
    IN  << St("processing", [video_urls |-> n, videos_count |-> n], <<5, 1>>),
           Do("mkdir"),
           St("downloading", [video_urls |-> n, videos_count |-> n], <<10, 1>>) >>
        \o MergeDownloads(0, n)
        \o << St("merging", [video_urls |-> n, videos_count |-> n], <<45, 1>>) >>
        \o MergeNormalize(0, n)
        \o MergeTail(data)

\* the tail the four single-transform handlers each end with
UploadTail ==
    << St("uploading", << >>, <<80, 1>>),
       Do("upload"),
       Do("presign"),
       St("completed", [download_url |-> NoUrl], <<100, 1>>) >>

\* the uploading write placed after the completed one
CaptionPlan_uploadingLast(data) ==
    << St("processing", [input_url |-> data.input_url, caption |-> data.second], <<10, 1>>),
       Do("mkdir"),
       Do("fetch"),
       St("processing", [stage |-> "downloaded"], <<30, 1>>),
       Do("transform"),
       Do("upload"),
       Do("presign"),
       St("completed", [download_url |-> NoUrl], <<100, 1>>),
       St("uploading", << >>, <<100, 1>>) >>

CaptionPlan(data) ==
    << St("processing", [input_url |-> data.input_url, caption |-> data.second], <<10, 1>>),
       Do("mkdir"),
       Do("fetch"),
       St("processing", [stage |-> "downloaded"], <<30, 1>>),
       Do("transform") >>
    \o UploadTail

AudioPlan(data) ==
    << St("processing", [input_url |-> data.input_url, audio |-> data.second], <<10, 1>>),
       Do("mkdir"),
       Do("fetch"),
       Do("fetch"),
       St("processing", [stage |-> "downloaded"], <<40, 1>>),
       Do("transform") >>
    \o UploadTail

WatermarkPlan(data) ==
    << St("processing", [input_url |-> data.input_url, watermark |-> data.second], <<10, 1>>),
       Do("mkdir"),
       Do("fetch"),
       Do("fetch"),
       St("processing", [stage |-> "downloaded"], <<40, 1>>),
       Do("transform") >>
    \o UploadTail

OverlayPlan(data) ==
    << St("processing", [input_url |-> data.input_url, overlay |-> data.second], <<10, 1>>),
       Do("mkdir"),
       Do("fetch"),
       Do("fetch"),
       St("processing", [stage |-> "downloaded"], <<40, 1>>),
       Do("transform") >>
    \o UploadTail

Plan(data) ==
    CASE data.operation = "merge" -> MergePlan(data)
      [] data.operation = "caption" -> CaptionPlan(data)
      [] data.operation = "add-audio" -> AudioPlan(data)
      [] data.operation = "watermark" -> WatermarkPlan(data)
      [] data.operation = "overlay" -> OverlayPlan(data)

\* output_key prefix of each handler
OutputPrefix(op) ==
    CASE op = "merge" -> "merged"
      [] op = "caption" -> "caption"
      [] op = "add-audio" -> "audio"
      [] op = "watermark" -> "watermark"
      [] op = "overlay" -> "overlay"


\* ------------------------------------------------------------ state
VARIABLES
    queue_url,   \* QUEUE_URL and sqs are set (main.py:27, :988)
    ffmpeg,      \* _has_ffmpeg() finds the tool (main.py:30)
    store,       \* status store: jobs/{job_id}/status.json, by job id
    hist,        \* every status record put under a job id, in order
    artifacts,   \* keys of the objects uploaded to the output bucket
    queue,       \* messages visible in the queue
    ctx,         \* per invocation slot: the locals of handler() and its callee
    nposts, nforeign, ndups, nfaults, ngen

vars == <<queue_url, ffmpeg, store, hist, artifacts, queue, ctx,
          nposts, nforeign, ndups, nfaults, ngen>>

NoRecord == [status |-> "absent"]

IdleCtx ==
    [pc |-> "idle", kind |-> None, batch |-> <<>>, rec |-> 0, data |-> None,
     worker_mode |-> FALSE, job_id |-> None, ip |-> 0, e |-> None,
     download_url |-> NoUrl, resp |-> None, outcome |-> None,
     wrote |-> <<>>, effects |-> {}, op_raised |-> None, failed_write |-> None,
     ret |-> None, event |-> None, lookup |-> None]

Init ==
    /\ queue_url \in BOOLEAN
    /\ ffmpeg \in BOOLEAN
    /\ store = [j \in AllIds |-> NoRecord]
    /\ hist = [j \in AllIds |-> <<>>]
    /\ artifacts = {}
    /\ queue = <<>>
    /\ ctx = [h \in Inst |-> IdleCtx]
    /\ nposts = 0
    /\ nforeign = 0
    /\ ndups = 0
    /\ nfaults = 0
    /\ ngen = 0

\* the environment can still act: submit, duplicate or fail a call
Budget == nposts + nforeign + ndups + nfaults < MaxEvents

\* an external call may raise
CanFail == nfaults < MaxFaults /\ Budget

\* ----------------------------------------------------------- inputs
Payload(op, jid, n, input_url, second, input_key) ==
    [operation |-> op, job_id |-> jid, video_urls |-> n,
     input_url |-> input_url, second |-> second, input_key |-> input_key]

\* one well-formed and one deficient request per operation; merge also with a
\* generated job id, so that two jobs of one run can have different ids
PostInputs ==
    {Payload("merge", "a", n, None, None, None) : n \in 1..MaxUrls}
    \cup {Payload("merge", None, MaxUrls, None, None, None)}
    \cup {Payload("caption", "a", 0, "in.mp4", s, None) : s \in {None, "text"}}
    \cup {Payload("add-audio", "a", 0, u, "audio.mp3", None) : u \in {None, "in.mp4"}}
    \cup {Payload("watermark", "a", 0, "in.mp4", s, None) : s \in {None, "mark.png"}}
    \cup {Payload("overlay", None, 0, u, "over.mp4", None) : u \in {None, "in.mp4"}}
    \cup {Payload("remux", None, 0, None, None, k) : k \in {None, "in.mov"}}
    \cup {Payload(op, None, 0, None, None, "in.mov") : op \in {None, "resize"}}

\* messages another producer can put on the queue
ForeignMessages ==
    {Payload(op, "a", MaxUrls, None, None, None) : op \in {None, "remux", "resize"}}

\* --------------------------------------------------------- handler()
\* the body's except clause (main.py:1030): every exception becomes a 500
HandlerError(e) ==
    [statusCode |-> 500, body |-> [error |-> [prefix |-> "Handler error: ", msg |-> e]]]

Caught(c, e) ==
    [c EXCEPT !.pc = "done", !.resp = HandlerError(e), !.outcome = "returned"]

Returned(c, resp) ==
    [c EXCEPT !.pc = "done", !.resp = resp, !.outcome = "returned"]

\* the inline result replaced by the acknowledgment of the queue loop
OpReturn_ack(c, ret) ==
    IF c.kind = "sqs"
    THEN [c EXCEPT !.pc = "sqs_loop", !.rec = @ + 1, !.ret = ret]
    ELSE Returned([c EXCEPT !.ret = ret], [statusCode |-> 200, body |-> [status |-> "ok"]])

\* an operation handler returns `ret` to handler()
OpReturn(c, ret) ==
    IF c.kind = "sqs"
    THEN [c EXCEPT !.pc = "sqs_loop", !.rec = @ + 1, !.ret = ret]
    ELSE Returned([c EXCEPT !.ret = ret], ret)

\* a raise that lets the queue loop go on with the next record
OpRaise_continue(c, e) ==
    IF c.kind = "sqs"
    THEN [c EXCEPT !.pc = "sqs_loop", !.rec = @ + 1, !.op_raised = e]
    ELSE Caught([c EXCEPT !.op_raised = e], e)

\* an operation handler raises e into handler()
OpRaise(c, e) == Caught([c EXCEPT !.op_raised = e], e)

\* entering _handle_<op>_operation(data, worker_mode)
CallOp(c, data, worker_mode) ==
    [c EXCEPT !.pc = "validate", !.data = data, !.worker_mode = worker_mode,
              !.job_id = None, !.ip = 0, !.e = None, !.download_url = NoUrl,
              !.wrote = <<>>, !.effects = {}, !.op_raised = None,
              !.failed_write = None, !.ret = None]

Set(h, c) == ctx' = [ctx EXCEPT ![h] = c]


\* ------------------------------------------------------- invocations
\* slot h is free for the next event; invocations run one after the other
CanStart(h) == \A g \in Inst : ctx[g].pc = "idle"

\* ------------------------------------------------- queue-delivered batch
\* the queue hands the first k visible messages to an idle invocation
ReceiveBatch(h, k) ==
    /\ CanStart(h)
    /\ Len(queue) >= k
    /\ queue' = SubSeq(queue, k + 1, Len(queue))
    /\ Set(h, [IdleCtx EXCEPT !.pc = "sqs_loop", !.kind = "sqs",
                              !.batch = SubSeq(queue, 1, k), !.rec = 1])
    /\ UNCHANGED <<queue_url, ffmpeg, store, hist, artifacts,
                   nposts, nforeign, ndups, nfaults, ngen>>

\* at-least-once delivery: a message in flight becomes visible again
DuplicateDelivery(h) ==
    /\ ctx[h].kind = "sqs"
    /\ ctx[h].pc # "done"
    /\ ndups < MaxDup
    /\ Budget
    /\ ndups' = ndups + 1
    /\ queue' = queue \o ctx[h].batch
    /\ UNCHANGED <<queue_url, ffmpeg, store, hist, artifacts, ctx,
                   nposts, nforeign, nfaults, ngen>>

\* another producer sends a message to the queue
ForeignSend(m) ==
    /\ queue_url
    /\ nforeign < MaxForeign
    /\ Budget
    /\ nforeign' = nforeign + 1
    /\ queue' = Append(queue, m)
    /\ UNCHANGED <<queue_url, ffmpeg, store, hist, artifacts, ctx,
                   nposts, ndups, nfaults, ngen>>

\* the queue loop with the direct invocation's default operation
SqsRecord_defaultRemux(h) ==
    LET c == ctx[h]
        payload == c.batch[c.rec]
        operation == IF payload.operation = None THEN "remux" ELSE payload.operation
    IN  /\ c.pc = "sqs_loop"
        /\ c.rec <= Len(c.batch)
        /\ \/ /\ operation \in AsyncOps
              /\ Set(h, CallOp(c, [payload EXCEPT !.operation = operation], TRUE))
           \/ /\ operation \notin AsyncOps
              /\ Set(h, Caught(c, "Unknown operation"))
        /\ UNCHANGED <<queue_url, ffmpeg, store, hist, artifacts, queue,
                       nposts, nforeign, ndups, nfaults, ngen>>

\* for record in event["Records"]: route on payload.get("operation", "merge")
SqsRecord(h) ==
    LET c == ctx[h]
        payload == c.batch[c.rec]
        operation == IF payload.operation = None THEN "merge" ELSE payload.operation
    IN  /\ c.pc = "sqs_loop"
        /\ c.rec <= Len(c.batch)
        /\ \/ /\ operation \in AsyncOps
              /\ Set(h, CallOp(c, [payload EXCEPT !.operation = operation], TRUE))
           \/ /\ operation \notin AsyncOps
              /\ Set(h, Caught(c, "Unknown operation"))
        /\ UNCHANGED <<queue_url, ffmpeg, store, hist, artifacts, queue,
                       nposts, nforeign, ndups, nfaults, ngen>>

\* the loop is over: "Successful processing"
SqsDone(h) ==
    LET c == ctx[h]
    IN  /\ c.pc = "sqs_loop"
        /\ c.rec > Len(c.batch)
        /\ Set(h, Returned(c, [statusCode |-> 200, body |-> [status |-> "ok"]]))
        /\ UNCHANGED <<queue_url, ffmpeg, store, hist, artifacts, queue,
                       nposts, nforeign, ndups, nfaults, ngen>>

\* the host ends the invocation: a batch whose invocation returned is deleted
\* from the queue, a batch whose invocation raised becomes visible again
Finish(h) ==
    LET c == ctx[h]
    IN  /\ c.pc = "done"
        /\ queue' = IF c.kind = "sqs" /\ c.outcome = "raised"
                    THEN queue \o c.batch ELSE queue
        /\ Set(h, IdleCtx)
        /\ UNCHANGED <<queue_url, ffmpeg, store, hist, artifacts,
                       nposts, nforeign, ndups, nfaults, ngen>>

\* -------------------------------------------------------------- GET
\* rawPath as the sequence of its segments: <<"status", "a">> is /status/a,
\* <<"status", "">> is /status/ and <<>> is /
GetPaths ==
    {<<>>, <<"status", "">>, <<"status", "a">>, <<"status", GenId(1)>>,
     <<"status", "zz">>, <<"status", "x", "status", "a">>,
     <<"status", "a", "status", "">>}

\* raw_path.startswith("/status/")
StartsWithStatus(p) == Len(p) >= 2 /\ p[1] = "status"

\* raw_path.split("/status/")[-1]: what follows the last "/status/"
SplitLast(p) ==
    LET k == CHOOSE k \in 1..(Len(p) - 1) :
                 /\ p[k] = "status"
                 /\ \A m \in (k + 1)..(Len(p) - 1) : p[m] # "status"
    IN  SubSeq(p, k + 1, Len(p))

\* the job id a status path asks for: everything after the leading /status/
RequestedId(p) == SubSeq(p, 2, Len(p))

\* `if job_id:` on the text the segments spell
NonEmptyId(id) == id # <<"">>

\* the job id a sequence of path segments spells
IdText(id) ==
    IF Len(id) = 1 THEN id[1]
    ELSE IF id = <<"x", "status", "zz">> THEN NestedId ELSE ""

\* the record stored under jobs/{job_id}/status.json, NoRecord when there is none
Stored(id) ==
    IF IdText(id) \in AllIds THEN store[IdText(id)] ELSE NoRecord

\* _get_job_status(job_id): the record, or None (NoRecord) when the object
\* is missing and also when reading it raises
GetJobStatus(id, readable) == IF readable THEN Stored(id) ELSE NoRecord

JobNotFound == [statusCode |-> 404, body |-> [error |-> "Job not found"]]

Health ==
    [statusCode |-> 200,
     body |-> [status |-> "ok", message |-> "Video Merge API", has_ffmpeg |-> ffmpeg]]

\* the response of the status route to what _get_job_status returned
StatusResponse(status_data) ==
    IF status_data # NoRecord
    THEN [statusCode |-> 200, body |-> status_data]
    ELSE JobNotFound

\* method == "GET": the status route first, the health root otherwise
Get(h, p) ==
    LET c == [IdleCtx EXCEPT !.kind = "get", !.event = p, !.pc = "done",
                             !.outcome = "returned"]
    IN  /\ CanStart(h)
        /\ IF StartsWithStatus(p) /\ NonEmptyId(SplitLast(p))
           THEN \/ /\ Set(h, [c EXCEPT !.lookup = "read",
                                        !.resp = StatusResponse(GetJobStatus(SplitLast(p), TRUE))])
                   /\ UNCHANGED nfaults
                \/ /\ CanFail
                   /\ nfaults' = nfaults + 1
                   /\ Set(h, [c EXCEPT !.lookup = "error",
                                        !.resp = StatusResponse(GetJobStatus(SplitLast(p), FALSE))])
           ELSE /\ Set(h, [c EXCEPT !.resp = Health])
                /\ UNCHANGED nfaults
        /\ UNCHANGED <<queue_url, ffmpeg, store, hist, artifacts, queue,
                       nposts, nforeign, ndups, ngen>>

\* ------------------------------------------------------------- POST
\* method == "POST": parse the body, route on data.get("operation", "remux")
Post(h, data) ==
    LET c == [IdleCtx EXCEPT !.kind = "post", !.data = data, !.event = data]
        operation == IF data.operation = None THEN "remux" ELSE data.operation
    IN  /\ CanStart(h)
        /\ nposts < MaxPosts
        /\ Budget
        /\ nposts' = nposts + 1
        /\ IF operation \in AsyncOps
           THEN IF queue_url
                THEN \* job_id = data.get("job_id") or str(uuid.uuid4())[:8]
                     /\ ngen' = IF Truthy(data.job_id) THEN ngen ELSE ngen + 1
                     /\ Set(h, [c EXCEPT !.pc = "enqueue_status",
                                         !.job_id = IF Truthy(data.job_id) THEN data.job_id
                                                    ELSE GenId(ngen + 1),
                                         !.data.job_id = IF Truthy(data.job_id) THEN data.job_id
                                                         ELSE GenId(ngen + 1)])
                ELSE /\ Set(h, CallOp(c, data, FALSE))
                     /\ ngen' = ngen
           ELSE /\ Set(h, [c EXCEPT !.pc = "remux"])
                /\ ngen' = ngen
        /\ UNCHANGED <<queue_url, ffmpeg, store, hist, artifacts, queue,
                       nforeign, ndups, nfaults>>

\* a store that keeps the first terminal record of a job
PutStatus_keepTerminal(rec) ==
    /\ store' = IF Terminal(store[rec.job_id]) THEN store
                ELSE [store EXCEPT ![rec.job_id] = rec]
    /\ hist' = [hist EXCEPT ![rec.job_id] = Append(@, rec)]

\* the store's put_object under jobs/{job_id}/status.json
PutStatus(rec) ==
    /\ store' = [store EXCEPT ![rec.job_id] = rec]
    /\ hist' = [hist EXCEPT ![rec.job_id] = Append(@, rec)]

\* the admission record written with the worker's first label
QueuedRecord_processing(c) ==
    IF c.data.operation = "merge"
    THEN StatusData(c.job_id, "processing", [video_urls |-> c.data.video_urls], None)
    ELSE StatusData(c.job_id, "processing",
                    [input_url |-> c.data.input_url, operation |-> c.data.operation], None)

QueuedRecord(c) ==
    IF c.data.operation = "merge"
    THEN StatusData(c.job_id, "queued", [video_urls |-> c.data.video_urls], None)
    ELSE StatusData(c.job_id, "queued",
                    [input_url |-> c.data.input_url, operation |-> c.data.operation], None)

\* _save_job_status(job_id, "queued", ...) at admission
EnqueueStatus(h) ==
    LET c == ctx[h]
    IN  /\ c.pc = "enqueue_status"
        /\ \/ /\ PutStatus(QueuedRecord(c))
              /\ Set(h, [c EXCEPT !.pc = "enqueue_send",
                                  !.effects = @ \cup {"status"}])
              /\ UNCHANGED nfaults
           \/ /\ CanFail
              /\ nfaults' = nfaults + 1
              /\ Set(h, Caught(c, "StatusStoreError"))
              /\ UNCHANGED <<store, hist>>
        /\ UNCHANGED <<queue_url, ffmpeg, artifacts, queue, nposts, nforeign, ndups, ngen>>

\* the acknowledgment built from the id the caller sent, not the resolved one
Accepted_callerId(c) ==
    [statusCode |-> 202,
     body |-> [accepted |-> TRUE, job_id |-> c.event.job_id,
               status_url |-> <<"/status/", c.event.job_id>>]]

Accepted(c) ==
    [statusCode |-> 202,
     body |-> [accepted |-> TRUE, job_id |-> c.job_id, status_url |-> <<"/status/", c.job_id>>]]

\* the queued record written once more when the message is sent
EnqueueSend_thenQueued(h) ==
    LET c == ctx[h]
    IN  /\ c.pc = "enqueue_send"
        /\ \/ /\ queue' = Append(queue, c.data)
              /\ PutStatus(QueuedRecord(c))
              /\ Set(h, Returned([c EXCEPT !.effects = @ \cup {"enqueue"}], Accepted(c)))
              /\ UNCHANGED nfaults
           \/ /\ CanFail
              /\ nfaults' = nfaults + 1
              /\ Set(h, Caught(c, "QueueError"))
              /\ UNCHANGED <<queue, store, hist>>
        /\ UNCHANGED <<queue_url, ffmpeg, artifacts, nposts, nforeign, ndups, ngen>>

\* sqs.send_message(QueueUrl=QUEUE_URL, MessageBody=json.dumps(data)), then 202
EnqueueSend(h) ==
    LET c == ctx[h]
    IN  /\ c.pc = "enqueue_send"
        /\ \/ /\ queue' = Append(queue, c.data)
              /\ Set(h, Returned([c EXCEPT !.effects = @ \cup {"enqueue"}], Accepted(c)))
              /\ UNCHANGED nfaults
           \/ /\ CanFail
              /\ nfaults' = nfaults + 1
              /\ Set(h, Caught(c, "QueueError"))
              /\ UNCHANGED queue
        /\ UNCHANGED <<queue_url, ffmpeg, store, hist, artifacts, nposts, nforeign, ndups, ngen>>


\* ------------------------------------------------- operation handlers
\* the required-fields test that opens each handler
Valid(data) ==
    IF data.operation = "merge" THEN data.video_urls >= 2
    ELSE Truthy(data.input_url) /\ Truthy(data.second)

ValidationMessage(op) ==
    CASE op = "merge" -> "Merge operation requires at least 2 video URLs"
      [] op = "caption" -> "Caption operation requires input.url and caption.text"
      [] op = "add-audio" -> "Audio operation requires input.url and audio.url"
      [] op = "watermark" -> "Watermark operation requires input.url and watermark.url"
      [] op = "overlay" -> "Overlay operation requires input.url and overlay.url"

BadRequest(msg) ==
    [statusCode |-> 400, body |-> [error |-> [prefix |-> "", msg |-> msg]]]

\* the scratch directory made before the required fields are looked at
Validate_mkdirFirst(h) ==
    LET c == [ctx[h] EXCEPT !.effects = @ \cup {"mkdir"}]
        gen == ~Truthy(c.data.job_id)
    IN  /\ c.pc = "validate"
        /\ IF ~Valid(c.data)
           THEN /\ Set(h, IF c.worker_mode
                          THEN OpRaise(c, ValidationMessage(c.data.operation))
                          ELSE OpReturn(c, BadRequest(ValidationMessage(c.data.operation))))
                /\ ngen' = ngen
           ELSE IF ~ffmpeg
           THEN /\ Set(h, OpReturn(c, BadRequest("FFmpeg not available")))
                /\ ngen' = ngen
           ELSE /\ Set(h, [c EXCEPT !.pc = "body", !.ip = 1,
                                    !.job_id = IF gen THEN GenId(ngen + 1) ELSE c.data.job_id])
                /\ ngen' = IF gen THEN ngen + 1 ELSE ngen
        /\ UNCHANGED <<queue_url, ffmpeg, store, hist, artifacts, queue,
                       nposts, nforeign, ndups, nfaults>>

\* a worker that records the rejection as a failed status
Validate_recordsFailure(h) ==
    LET c == ctx[h]
        gen == ~Truthy(c.data.job_id)
        rejected == ~Valid(c.data) \/ ~ffmpeg
    IN  /\ c.pc = "validate"
        /\ IF ~Valid(c.data)
           THEN /\ Set(h, IF c.worker_mode
                          THEN OpRaise(c, ValidationMessage(c.data.operation))
                          ELSE OpReturn(c, BadRequest(ValidationMessage(c.data.operation))))
                /\ ngen' = ngen
           ELSE IF ~ffmpeg
           THEN /\ Set(h, OpReturn(c, BadRequest("FFmpeg not available")))
                /\ ngen' = ngen
           ELSE /\ Set(h, [c EXCEPT !.pc = "body", !.ip = 1,
                                    !.job_id = IF gen THEN GenId(ngen + 1) ELSE c.data.job_id])
                /\ ngen' = IF gen THEN ngen + 1 ELSE ngen
        /\ IF rejected /\ c.worker_mode /\ ~gen
           THEN PutStatus(StatusData(c.data.job_id, "failed",
                                     [error |-> "rejected"], <<100, 1>>))
           ELSE UNCHANGED <<store, hist>>
        /\ UNCHANGED <<queue_url, ffmpeg, artifacts, queue,
                       nposts, nforeign, ndups, nfaults>>

\* required fields, then _has_ffmpeg(), then the first lines of the try block
Validate(h) ==
    LET c == ctx[h]
        gen == ~Truthy(c.data.job_id)
    IN  /\ c.pc = "validate"
        /\ IF ~Valid(c.data)
           THEN /\ Set(h, IF c.worker_mode
                          THEN OpRaise(c, ValidationMessage(c.data.operation))
                          ELSE OpReturn(c, BadRequest(ValidationMessage(c.data.operation))))
                /\ ngen' = ngen
           ELSE IF ~ffmpeg
           THEN /\ Set(h, OpReturn(c, BadRequest("FFmpeg not available")))
                /\ ngen' = ngen
           ELSE /\ Set(h, [c EXCEPT !.pc = "body", !.ip = 1,
                                    !.job_id = IF gen THEN GenId(ngen + 1) ELSE c.data.job_id])
                /\ ngen' = IF gen THEN ngen + 1 ELSE ngen
        /\ UNCHANGED <<queue_url, ffmpeg, store, hist, artifacts, queue,
                       nposts, nforeign, ndups, nfaults>>

Cur(c) == Plan(c.data)[c.ip]
At(h, k) == ctx[h].pc = "body" /\ Cur(ctx[h]).k = k

OutputKey(c) == <<OutputPrefix(c.data.operation), c.job_id>>

\* what the handler returns after the completed write
SuccessResult(c) ==
    LET base == [success |-> TRUE, job_id |-> c.job_id, download_url |-> c.download_url]
        merged == base @@ [videos_merged |-> c.data.video_urls]
    IN  IF c.worker_mode
        THEN IF c.data.operation = "merge" THEN merged ELSE base
        ELSE [statusCode |-> 200,
              body |-> IF c.data.operation = "merge"
                       THEN merged @@ [expires_in |-> "1 hour"] ELSE base]

\* the statement after the current one, or the return that ends the try block
Step(c) ==
    IF c.ip = Len(Plan(c.data)) THEN OpReturn(c, SuccessResult(c))
    ELSE [c EXCEPT !.ip = @ + 1]

\* an exception inside the try block enters the except clause
Fail(c, e) == [c EXCEPT !.pc = "except", !.e = e]

\* the record a status statement of the plan writes
PlanRecord(c) ==
    LET st == Cur(c)
        md == IF "download_url" \in DOMAIN st.metadata
              THEN [st.metadata EXCEPT !.download_url = c.download_url]
              ELSE st.metadata
    IN  StatusData(c.job_id, st.status, md, st.progress)

\* _save_job_status(job_id, <stage>, ...) inside the try block
SaveStatus(h) ==
    LET c == ctx[h]
    IN  /\ At(h, "status")
        /\ \/ /\ PutStatus(PlanRecord(c))
              /\ Set(h, Step([c EXCEPT !.wrote = Append(@, PlanRecord(c)),
                                       !.effects = @ \cup {"status"}]))
              /\ UNCHANGED nfaults
           \/ /\ CanFail
              /\ nfaults' = nfaults + 1
              /\ Set(h, Fail(c, "StatusStoreError"))
              /\ UNCHANGED <<store, hist>>
        /\ UNCHANGED <<queue_url, ffmpeg, artifacts, queue, nposts, nforeign, ndups, ngen>>

\* tmp_dir.mkdir(parents=True, exist_ok=True)
Mkdir(h) ==
    LET c == ctx[h]
    IN  /\ At(h, "mkdir")
        /\ Set(h, Step([c EXCEPT !.effects = @ \cup {"mkdir"}]))
        /\ UNCHANGED <<queue_url, ffmpeg, store, hist, artifacts, queue,
                       nposts, nforeign, ndups, nfaults, ngen>>

\* _download_video_from_url(url, path)
Fetch(h) ==
    LET c == ctx[h]
    IN  /\ At(h, "fetch")
        /\ \/ /\ Set(h, Step([c EXCEPT !.effects = @ \cup {"fetch"}]))
              /\ UNCHANGED nfaults
           \/ /\ CanFail
              /\ nfaults' = nfaults + 1
              /\ Set(h, Fail([c EXCEPT !.effects = @ \cup {"fetch"}], "FetchError"))
        /\ UNCHANGED <<queue_url, ffmpeg, store, hist, artifacts, queue,
                       nposts, nforeign, ndups, ngen>>

\* subprocess.run(cmd, check=True, ...)
Transform(h) ==
    LET c == ctx[h]
    IN  /\ At(h, "transform")
        /\ \/ /\ Set(h, Step([c EXCEPT !.effects = @ \cup {"transform"}]))
              /\ UNCHANGED nfaults
           \/ /\ CanFail
              /\ nfaults' = nfaults + 1
              /\ Set(h, Fail([c EXCEPT !.effects = @ \cup {"transform"}], "TransformError"))
        /\ UNCHANGED <<queue_url, ffmpeg, store, hist, artifacts, queue,
                       nposts, nforeign, ndups, ngen>>

\* s3.upload_file(str(output_path), OUTPUT_BUCKET, output_key)
Upload(h) ==
    LET c == ctx[h]
    IN  /\ At(h, "upload")
        /\ \/ /\ artifacts' = artifacts \cup {OutputKey(c)}
              /\ Set(h, Step([c EXCEPT !.effects = @ \cup {"upload"}]))
              /\ UNCHANGED nfaults
           \/ /\ CanFail
              /\ nfaults' = nfaults + 1
              /\ Set(h, Fail([c EXCEPT !.effects = @ \cup {"upload"}], "UploadError"))
              /\ UNCHANGED artifacts
        /\ UNCHANGED <<queue_url, ffmpeg, store, hist, queue, nposts, nforeign, ndups, ngen>>

\* download_url = _generate_presigned_url(OUTPUT_BUCKET, output_key, 3600)
Presign(h) ==
    LET c == ctx[h]
    IN  /\ At(h, "presign")
        /\ \/ /\ Set(h, Step([c EXCEPT !.download_url =
                                          GeneratePresignedUrl(OutputKey(c), PresignExpiry)]))
              /\ UNCHANGED nfaults
           \/ /\ CanFail
              /\ nfaults' = nfaults + 1
              /\ Set(h, Fail(c, "PresignError"))
        /\ UNCHANGED <<queue_url, ffmpeg, store, hist, artifacts, queue,
                       nposts, nforeign, ndups, ngen>>

\* the record the except clause writes
\* the failed record written without progress=100
FailedRecord_zero(c) ==
    StatusData(c.job_id, "failed", [error |-> c.e], <<0, 1>>)

\* the failed record written with a fixed text instead of str(e)
FailedRecord_noText(c) ==
    StatusData(c.job_id, "failed", [error |-> "error"], <<100, 1>>)

FailedRecord(c) ==
    StatusData(c.job_id, "failed", [error |-> c.e], <<100, 1>>)

\* the word each handler's 500 body starts with
OpTitle(op) ==
    CASE op = "merge" -> "Merge"
      [] op = "caption" -> "Caption"
      [] op = "add-audio" -> "Audio"
      [] op = "watermark" -> "Watermark"
      [] op = "overlay" -> "Overlay"

OperationFailed(c) ==
    LET err == [prefix |-> OpTitle(c.data.operation) \o " operation failed: ", msg |-> c.e]
    IN  [statusCode |-> 500,
         body |-> IF c.data.operation = "merge"
                  THEN [error |-> err, operation |-> "merge"] ELSE [error |-> err]]

\* after the failed write: raise in worker mode, a 500 response otherwise
Reraise(c) ==
    IF c.worker_mode THEN OpRaise(c, c.e) ELSE OpReturn(c, OperationFailed(c))

\* only the merge handler wraps the failed write in try/except: pass
SwallowsStoreError(op) == op = "merge"

\* except Exception as e: _save_job_status(jid, "failed", ...), then raise or return
Except(h) ==
    LET c == ctx[h]
    IN  /\ c.pc = "except"
        /\ \/ /\ PutStatus(FailedRecord(c))
              /\ Set(h, Reraise([c EXCEPT !.wrote = Append(@, FailedRecord(c)),
                                          !.effects = @ \cup {"status"},
                                          !.failed_write = "ok"]))
              /\ UNCHANGED nfaults
           \/ /\ CanFail
              /\ nfaults' = nfaults + 1
              /\ Set(h, IF SwallowsStoreError(c.data.operation)
                        THEN Reraise([c EXCEPT !.failed_write = "failed"])
                        ELSE OpRaise([c EXCEPT !.failed_write = "failed"],
                                     "StatusStoreError"))
              /\ UNCHANGED <<store, hist>>
        /\ UNCHANGED <<queue_url, ffmpeg, artifacts, queue, nposts, nforeign, ndups, ngen>>


\* ------------------------------------------------------------ remux
\* INPUT_BUCKET and OUTPUT_BUCKET are set in the environment, and
\* output_key defaults to processed/{input_key}: only input_key can be missing
RemuxKey(data) == <<"processed", data.input_key>>

\* the fallback result without the error text
RemuxResult_noError(operation, e) ==
    [statusCode |-> 200, body |-> [operation |-> operation]]

RemuxResult(operation, e) ==
    [statusCode |-> 200,
     body |-> IF e = None THEN [operation |-> operation]
              ELSE [operation |-> operation, error |-> e]]

\* required fields, then _has_ffmpeg() chooses between remux and plain copy
Remux(h) ==
    LET c == ctx[h]
    IN  /\ c.pc = "remux"
        /\ Set(h, IF ~Truthy(c.data.input_key)
                  THEN Returned(c, BadRequest("Missing required fields"))
                  ELSE IF ffmpeg
                  THEN [c EXCEPT !.pc = "remux_download", !.effects = @ \cup {"mkdir"}]
                  ELSE [c EXCEPT !.pc = "remux_copy"])
        /\ UNCHANGED <<queue_url, ffmpeg, store, hist, artifacts, queue,
                       nposts, nforeign, ndups, nfaults, ngen>>

\* s3.download_file(input_bucket, input_key, str(in_path)), outside the try
RemuxDownload(h) ==
    LET c == ctx[h]
    IN  /\ c.pc = "remux_download"
        /\ \/ /\ Set(h, [c EXCEPT !.pc = "remux_ffmpeg", !.effects = @ \cup {"fetch"}])
              /\ UNCHANGED nfaults
           \/ /\ CanFail
              /\ nfaults' = nfaults + 1
              /\ Set(h, Caught(c, "FetchError"))
        /\ UNCHANGED <<queue_url, ffmpeg, store, hist, artifacts, queue,
                       nposts, nforeign, ndups, ngen>>

\* ffmpeg -c copy; any failure inside the try falls back to the object copy
RemuxFfmpeg(h) ==
    LET c == ctx[h]
    IN  /\ c.pc = "remux_ffmpeg"
        /\ \/ /\ Set(h, [c EXCEPT !.pc = "remux_upload", !.effects = @ \cup {"transform"}])
              /\ UNCHANGED nfaults
           \/ /\ CanFail
              /\ nfaults' = nfaults + 1
              /\ Set(h, [c EXCEPT !.pc = "remux_copy", !.e = "TransformError",
                                  !.effects = @ \cup {"transform"}])
        /\ UNCHANGED <<queue_url, ffmpeg, store, hist, artifacts, queue,
                       nposts, nforeign, ndups, ngen>>

\* s3.upload_file(str(out_path), output_bucket, output_key), still inside the try
RemuxUpload(h) ==
    LET c == ctx[h]
    IN  /\ c.pc = "remux_upload"
        /\ \/ /\ artifacts' = artifacts \cup {RemuxKey(c.data)}
              /\ Set(h, Returned([c EXCEPT !.effects = @ \cup {"upload"}],
                                 RemuxResult("ffmpeg_copy", None)))
              /\ UNCHANGED nfaults
           \/ /\ CanFail
              /\ nfaults' = nfaults + 1
              /\ Set(h, [c EXCEPT !.pc = "remux_copy", !.e = "UploadError",
                                  !.effects = @ \cup {"upload"}])
              /\ UNCHANGED artifacts
        /\ UNCHANGED <<queue_url, ffmpeg, store, hist, queue, nposts, nforeign, ndups, ngen>>

\* s3.copy(...): the fallback after a failure, or the only step without ffmpeg
RemuxCopy(h) ==
    LET c == ctx[h]
    IN  /\ c.pc = "remux_copy"
        /\ \/ /\ artifacts' = artifacts \cup {RemuxKey(c.data)}
              /\ Set(h, Returned([c EXCEPT !.effects = @ \cup {"copy"}],
                                 IF c.e = None THEN RemuxResult("s3_copy", None)
                                 ELSE RemuxResult("s3_copy_fallback", c.e)))
              /\ UNCHANGED nfaults
           \/ /\ CanFail
              /\ nfaults' = nfaults + 1
              /\ Set(h, Caught(c, "CopyError"))
              /\ UNCHANGED artifacts
        /\ UNCHANGED <<queue_url, ffmpeg, store, hist, queue, nposts, nforeign, ndups, ngen>>

\* ------------------------------------------------------ specification
Next ==
    \/ \E h \in Inst, k \in 1..MaxBatch : ReceiveBatch(h, k)
    \/ \E h \in Inst : DuplicateDelivery(h)
    \/ \E m \in ForeignMessages : ForeignSend(m)
    \/ \E h \in Inst : SqsRecord(h)
    \/ \E h \in Inst : SqsDone(h)
    \/ \E h \in Inst : Finish(h)
    \/ \E h \in Inst, p \in GetPaths : Get(h, p)
    \/ \E h \in Inst, data \in PostInputs : Post(h, data)
    \/ \E h \in Inst : EnqueueStatus(h)
    \/ \E h \in Inst : EnqueueSend(h)
    \/ \E h \in Inst : Validate(h)
    \/ \E h \in Inst : SaveStatus(h)
    \/ \E h \in Inst : Mkdir(h)
    \/ \E h \in Inst : Fetch(h)
    \/ \E h \in Inst : Transform(h)
    \/ \E h \in Inst : Upload(h)
    \/ \E h \in Inst : Presign(h)
    \/ \E h \in Inst : Except(h)
    \/ \E h \in Inst : Remux(h)
    \/ \E h \in Inst : RemuxDownload(h)
    \/ \E h \in Inst : RemuxFfmpeg(h)
    \/ \E h \in Inst : RemuxUpload(h)
    \/ \E h \in Inst : RemuxCopy(h)

Spec == Init /\ [][Next]_vars


\* ------------------------------------------------------------ claims
Last(s) == s[Len(s)]
Labels(s) == [k \in 1..Len(s) |-> s[k].status]
Progresses(s) == [k \in 1..Len(s) |-> s[k].progress]

\* the slot is inside the try block or the except clause of an operation handler
InOp(c) == c.pc \in {"body", "except"}

\* the invocation in slot h has ended, after its operation handler failed with e
EndedFailed(c) == c.pc = "done" /\ c.e # None /\ c.data.operation \in AsyncOps

\* C1: when the operation handler invoked for a record of a queue-delivered
\* batch raises, the exception leaves handler(): the invocation ends as a
\* failed one (and the queue redelivers), not with a response.
C1_WorkerErrorPropagates ==
    \A h \in Inst :
        (ctx[h].pc = "done" /\ ctx[h].kind = "sqs" /\ ctx[h].op_raised # None)
            => ctx[h].outcome = "raised"

\* C2: a POST for an async-capable operation that lacks a required field is
\* answered with a 4xx body carrying an error, and fetches, transforms and
\* uploads nothing, whether or not a queue is configured (stated for the
\* requests during which no external call fails).
C2_MissingFieldRejected ==
    \A h \in Inst :
        LET c == ctx[h]
        IN  (c.pc = "done" /\ c.kind = "post" /\ nfaults = 0
             /\ c.data.operation \in AsyncOps /\ ~Valid(c.data))
                => /\ c.resp.statusCode \in 400..499
                   /\ "error" \in DOMAIN c.resp.body
                   /\ c.effects \cap {"fetch", "transform", "upload"} = {}

\* C3 as stated: over all the status records written under one job id, from
\* admission through every delivery attempt, the progress values never
\* decrease (stated for the job ids the service generates itself, which no
\* second submission can carry).
C3_LifecycleProgressMonotone ==
    \A j \in AllIds \ CallerIds :
        \A k1, k2 \in 1..Len(hist[j]) :
            (k1 < k2 /\ HasProgress(hist[j][k1]) /\ HasProgress(hist[j][k2]))
                => hist[j][k1].progress <= hist[j][k2].progress

\* C3 amended: within one execution of an operation handler (one delivery
\* attempt or one synchronous request) every record written carries a
\* progress and the successive progress values never decrease.
C3_AttemptProgressMonotone ==
    \A h \in Inst :
        LET w == ctx[h].wrote
        IN  /\ \A k \in 1..Len(w) : HasProgress(w[k])
            /\ \A k1, k2 \in 1..Len(w) : k1 < k2 => w[k1].progress <= w[k2].progress

\* an execution that wrote several rising values and then the failed record
C3_Witness ==
    \E h \in Inst :
        LET w == ctx[h].wrote
        IN  /\ Len(w) >= 4
            /\ Last(w).status = "failed"
            /\ w[Len(w) - 1].progress < 1000

\* the queue is drained and no invocation runs: nothing more happens to a job
Quiescent == queue = <<>> /\ \A h \in Inst : ctx[h].pc = "idle"

\* a merge with at least two sources was admitted (queue path) or started
\* (inline path) under job id j
MergeAdmitted(j) ==
    \E k \in 1..Len(hist[j]) :
        /\ hist[j][k].status \in {"queued", "processing"}
        /\ "video_urls" \in DOMAIN hist[j][k].metadata
        /\ hist[j][k].metadata.video_urls >= 2

MergeCompleted(j) ==
    \E k \in 1..Len(hist[j]) :
        /\ hist[j][k].status = "completed"
        /\ hist[j][k].progress = 1000
        /\ hist[j][k].metadata.download_url.key = <<"merged", j>>

\* C4: every valid merge request (two sources or more) whose external calls
\* all succeed ends with a completed record, progress 100, carrying the
\* download_url of the uploaded artifact: once nothing is left to run, each
\* admitted merge has been completed (stated for runs whose queue holds
\* only this service's own messages).
C4_ValidMergeCompletes ==
    (Quiescent /\ nfaults = 0 /\ nforeign = 0 /\ ffmpeg)
        => \A j \in AllIds : MergeAdmitted(j) => MergeCompleted(j)

\* the run consists of one merge of two sources, submitted once through the
\* queue path, delivered once, with every external call succeeding
SingleQueuedMerge(j) ==
    /\ nposts = 1 /\ nforeign = 0 /\ ndups = 0 /\ nfaults = 0
    /\ Len(hist[j]) > 0
    /\ hist[j][1].status = "queued"
    /\ "video_urls" \in DOMAIN hist[j][1].metadata
    /\ hist[j][1].metadata.video_urls = 2
    /\ store[j].status = "completed"

\* C5 as stated: the labels written are exactly queued, processing,
\* downloading, downloading, merging, merging, completed, and the download
\* reference expires after 3600 seconds.
C5_SevenLabels ==
    \A j \in AllIds :
        SingleQueuedMerge(j)
            => /\ Labels(hist[j]) = <<"queued", "processing", "downloading", "downloading",
                                      "merging", "merging", "completed">>
               /\ store[j].metadata.download_url.expires = 3600

\* C5 amended: the labels written are queued, processing, three downloading
\* (before the fetches and after each of the two), four merging (before
\* normalising, after each of the two inputs, after concatenation) and
\* completed, with progress 5, 10, 25, 40, 45, 70, 95, 98, 100 from
\* processing on; the download reference expires after 3600 seconds.
C5_MergeTwoSequence ==
    \A j \in AllIds :
        SingleQueuedMerge(j)
            => /\ Labels(hist[j]) = <<"queued", "processing",
                                      "downloading", "downloading", "downloading",
                                      "merging", "merging", "merging", "merging",
                                      "completed">>
               /\ ~HasProgress(hist[j][1])
               /\ Progresses(SubSeq(hist[j], 2, Len(hist[j])))
                      = <<50, 100, 250, 400, 450, 700, 950, 980, 1000>>
               /\ store[j].metadata.download_url.expires = 3600

C5_Witness == \E j \in AllIds : SingleQueuedMerge(j)

\* C6: every handler follows processing -> downloading -> stage(s) ->
\* uploading -> completed: an execution that has fetched has written a
\* downloading status, one that has uploaded has written an uploading status,
\* and failed is written only when no terminal status precedes it.
C6_CommonStateMachine ==
    \A h \in Inst :
        LET c == ctx[h]
            w == c.wrote
        IN  InOp(c)
                => /\ "fetch" \in c.effects
                        => \E k \in 1..Len(w) : w[k].status = "downloading"
                   /\ "upload" \in c.effects
                        => \E k \in 1..Len(w) : w[k].status = "uploading"
                   /\ \A k \in 1..Len(w) :
                        w[k].status = "failed" => \A m \in 1..(k - 1) : ~Terminal(w[m])

\* the status label that names each kind of stage
StageLabels(k) ==
    CASE k = "fetch" -> {"downloading"}
      [] k = "transform" -> {"merging", "transforming"}
      [] k = "upload" -> {"uploading"}

\* C7: while a handler is at a fetch, a transform or an upload, the stored
\* status of its job id already names that stage.
C7_StatusNamesStage ==
    \A h \in Inst :
        LET c == ctx[h]
        IN  (c.pc = "body" /\ Cur(c).k \in {"fetch", "transform", "upload"})
                => store[c.job_id].status \in StageLabels(Cur(c).k)

\* the stored record of the job is the failed record of this execution
FailedStored(c) ==
    /\ store[c.job_id].status = "failed"
    /\ store[c.job_id].metadata = [error |-> c.e]
    /\ store[c.job_id].progress = 1000

\* C8 as stated: an exception in any stage after the first status write
\* results in a stored failed record with the error text and progress 100.
C8_FailureRecorded ==
    \A h \in Inst : EndedFailed(ctx[h]) => FailedStored(ctx[h])

\* C8 amended: the except clause attempts the failed write once; when the
\* status store accepts it, the stored record is failed with the error text
\* and progress 100 (when the store rejects it too, no failed record results).
C8_FailureRecordedWhenStored ==
    \A h \in Inst :
        (EndedFailed(ctx[h]) /\ ctx[h].failed_write = "ok") => FailedStored(ctx[h])

StageErrors == {"FetchError", "TransformError", "UploadError", "PresignError"}

C8_Witness ==
    \E h \in Inst :
        /\ EndedFailed(ctx[h])
        /\ ctx[h].failed_write = "ok"
        /\ ctx[h].e \in StageErrors

\* C9: when a stage fails and the failed write fails too, the store error is
\* swallowed: the error that reaches the caller (raised in worker mode, in
\* the 5xx body in sync mode) is the stage error.
C9_StoreErrorSwallowed ==
    \A h \in Inst :
        LET c == ctx[h]
        IN  (EndedFailed(c) /\ c.e \in StageErrors /\ c.failed_write = "failed")
                => /\ c.resp.body.error.msg = c.e
                   /\ c.worker_mode => c.op_raised = c.e
                   /\ ~c.worker_mode => c.op_raised = None

\* C10: whenever the stored status of a job is completed, the artifact its
\* download_url points to, keyed by that job id, is in the output store.
C10_CompletedAfterUpload ==
    \A j \in AllIds :
        store[j].status = "completed"
            => /\ "download_url" \in DOMAIN store[j].metadata
               /\ store[j].metadata.download_url.key \in artifacts
               /\ store[j].metadata.download_url.key[2] = j

C10_Witness ==
    \E j \in AllIds :
        /\ store[j].status = "completed"
        /\ store[j].metadata.download_url.key \in artifacts

\* the number of terminal records among those an execution wrote
Terminals(w) == Cardinality({k \in 1..Len(w) : Terminal(w[k])})

\* an operation handler entered its try block and has returned or raised
Executed(c) ==
    c.kind \in {"post", "sqs"} /\ c.ip >= 1 /\ c.pc \in {"done", "sqs_loop"}

\* C11 as stated: an execution of a handler writes exactly one terminal
\* status, and that one is its last status write.
C11_ExactlyOneTerminal ==
    \A h \in Inst :
        LET w == ctx[h].wrote
        IN  Executed(ctx[h]) => (Terminals(w) = 1 /\ Terminal(Last(w)))

\* C11 amended: an execution writes at most one terminal status and nothing
\* after it; it writes exactly one when the status store accepts the write
\* (the completed write, or the failed write of the except clause).
C11_AtMostOneTerminalLast ==
    \A h \in Inst :
        LET c == ctx[h]
            w == c.wrote
        IN  /\ Terminals(w) <= 1
            /\ \A k \in 1..Len(w) : Terminal(w[k]) => k = Len(w)
            /\ (Executed(c) /\ (c.e = None \/ c.failed_write = "ok"))
                    => (Terminals(w) = 1 /\ Terminal(Last(w)))

\* an execution that failed midway and one terminal record closes its writes
C11_Witness ==
    \E h \in Inst :
        LET c == ctx[h]
        IN  /\ Executed(c)
            /\ c.e \in StageErrors
            /\ Len(c.wrote) >= 3
            /\ Terminals(c.wrote) = 1

\* a finished POST for an async-capable operation
AsyncPost(c) ==
    c.pc = "done" /\ c.kind = "post" /\ c.data.operation \in AsyncOps

\* C12: with a queue configured, a POST for an async-capable operation
\* resolves the job_id, then writes the queued status, then enqueues the full
\* payload as one message, then answers 202 with accepted, the job_id and a
\* status URL; no operation handler runs and nothing is fetched, transformed
\* or uploaded inside the request.
C12_QueuePathAdmits ==
    \A h \in Inst :
        LET c == ctx[h]
        IN  /\ c.pc = "enqueue_status" => (c.job_id \in AllIds /\ c.effects = {})
            /\ c.pc = "enqueue_send"
                    => /\ c.effects = {"status"}
                       /\ store[c.job_id] = QueuedRecord(c)
            /\ (AsyncPost(c) /\ queue_url)
                    => /\ c.ip = 0 /\ c.wrote = <<>>
                       /\ c.effects \subseteq {"status", "enqueue"}
                       /\ nfaults = 0 => c.resp.statusCode = 202
                       /\ c.resp.statusCode = 202
                            => /\ c.effects = {"status", "enqueue"}
                               /\ c.resp.body.accepted
                               /\ c.resp.body.job_id = c.job_id
                               /\ c.resp.body.status_url = <<"/status/", c.job_id>>
                               /\ Last(hist[c.job_id]).status = "queued"
                               /\ \E k \in 1..Len(queue) :
                                      queue[k] = [c.event EXCEPT !.job_id = c.job_id]

C12_Witness ==
    \E h \in Inst :
        /\ AsyncPost(ctx[h]) /\ queue_url
        /\ ctx[h].resp.statusCode = 202
        /\ ctx[h].event.job_id = None

\* C13: without a queue, a POST for an async-capable operation runs the
\* matching operation handler inline and answers with what that handler
\* returns (its 400, its 200 result or its 500); no queued status is written
\* and no message is enqueued.
C13_InlineWithoutQueue ==
    \A h \in Inst :
        LET c == ctx[h]
            op == c.data.operation
        IN  (AsyncPost(c) /\ ~queue_url)
                => /\ "enqueue" \notin c.effects
                   /\ queue = <<>>
                   /\ \A j \in AllIds : \A k \in 1..Len(hist[j]) : hist[j][k].status # "queued"
                   /\ ~c.worker_mode
                   /\ c.op_raised = None
                        => c.resp = IF ~Valid(c.data) THEN BadRequest(ValidationMessage(op))
                                    ELSE IF ~ffmpeg THEN BadRequest("FFmpeg not available")
                                    ELSE IF c.e = None THEN SuccessResult(c)
                                    ELSE OperationFailed(c)

C13_Witness ==
    \E h \in Inst :
        /\ AsyncPost(ctx[h]) /\ ~queue_url
        /\ ctx[h].resp.statusCode = 200
        /\ store[ctx[h].job_id].status = "completed"

\* a synchronous request that ran its operation to the 200 response
SyncSuccess(c) ==
    AsyncPost(c) /\ ~c.worker_mode /\ c.ip >= 1 /\ c.e = None /\ c.resp.statusCode = 200

\* what the same execution returns and stores when run by the worker
AsWorker(c) == [c EXCEPT !.worker_mode = TRUE]

\* C14: for each operation and the same successful job, the body of the
\* sync 200 response carries exactly the fields of the worker-mode result,
\* and the completed record stored is the same in both modes.
C14_SyncMatchesWorker ==
    \A h \in Inst :
        LET c == ctx[h]
        IN  SyncSuccess(c)
                => /\ DOMAIN c.resp.body = DOMAIN SuccessResult(AsWorker(c))
                   /\ store[c.job_id] = Last(c.wrote)
                   /\ Last(c.wrote) = StatusData(c.job_id, "completed",
                                                 [Last(Plan(c.data)).metadata
                                                     EXCEPT !.download_url = c.download_url],
                                                 <<100, 1>>)

\* the id a request or message resolves to: the caller's when it sent one
Resolves(sent, job_id) ==
    IF Truthy(sent) THEN job_id = sent ELSE job_id \in AllIds \ CallerIds

\* C15: a caller-supplied job_id is used unchanged and one is generated only
\* when it is absent; on the queue path the 202 response, the queued record,
\* the message body and every record the worker writes for that message
\* carry the same job_id.
C15_OneJobId ==
    /\ \A j \in AllIds : \A k \in 1..Len(hist[j]) : hist[j][k].job_id = j
    /\ \A h \in Inst :
        LET c == ctx[h]
        IN  /\ (AsyncPost(c) /\ c.resp.statusCode = 202)
                    => /\ Resolves(c.event.job_id, c.job_id)
                       /\ c.resp.body.job_id = c.job_id
                       /\ Last(hist[c.job_id]).status = "queued"
                       /\ \E k \in 1..Len(queue) :
                              queue[k] = [c.event EXCEPT !.job_id = c.job_id]
            /\ (c.kind = "post" /\ InOp(c)) => Resolves(c.event.job_id, c.job_id)
            /\ (c.kind = "sqs" /\ InOp(c))
                    => /\ c.job_id = c.batch[c.rec].job_id
                       /\ \A k \in 1..Len(c.wrote) : c.wrote[k].job_id = c.job_id

\* the worker has written records for a message whose id was generated at admission
C15_Witness ==
    \E h \in Inst :
        /\ ctx[h].kind = "sqs"
        /\ InOp(ctx[h])
        /\ Len(ctx[h].wrote) >= 2
        /\ ctx[h].job_id = GenId(1)
        /\ hist[GenId(1)][1].status = "queued"

\* a finished status query for a non-empty job id
StatusQuery(c) ==
    /\ c.pc = "done" /\ c.kind = "get"
    /\ StartsWithStatus(c.event)
    /\ NonEmptyId(RequestedId(c.event))

\* C16: GET /status/{job_id} with a non-empty job id never falls through to
\* the health response: it answers 200 with the stored record when one
\* exists under that id and 404 'Job not found' when none exists (stated
\* for the queries whose read of the status store succeeds).
C16_StatusRouteFirst ==
    \A h \in Inst :
        LET c == ctx[h]
            rec == Stored(RequestedId(c.event))
        IN  (StatusQuery(c) /\ c.lookup # "error")
                => /\ c.resp # Health
                   /\ c.resp = IF rec # NoRecord
                               THEN [statusCode |-> 200, body |-> rec]
                               ELSE JobNotFound

\* C17: loading a status yields absent only when no record exists: when a
\* record is stored under the job id and reading the store fails, the status
\* query is not answered 'Job not found'.
C17_StoreFailureNotAbsent ==
    \A h \in Inst :
        LET c == ctx[h]
        IN  (StatusQuery(c) /\ c.lookup = "error" /\ Stored(RequestedId(c.event)) # NoRecord)
                => c.resp # JobNotFound

\* the operations the submission schema names
KnownOps == {"merge", "caption", "add-audio", "watermark", "overlay", "remux"}

\* the positions of _handle_remux_operation
RemuxPcs == {"remux", "remux_download", "remux_ffmpeg", "remux_upload", "remux_copy"}

\* C18: a submission whose operation is none of merge, caption, add-audio,
\* watermark, overlay, remux is rejected as a validation error, on the POST
\* path and for a queue-delivered message, and no handler (remux included)
\* copies, fetches, transforms or uploads anything for it.
C18_ClosedOperationSet ==
    \A h \in Inst :
        LET c == ctx[h]
        IN  /\ (c.kind = "post" /\ c.event.operation \notin KnownOps \cup {None})
                    => /\ c.effects \cap {"copy", "fetch", "transform", "upload"} = {}
                       /\ c.pc = "done" => c.resp.statusCode \in 400..499
            /\ c.kind = "sqs"
                    => /\ c.pc \notin RemuxPcs
                       /\ InOp(c) => c.data.operation \in KnownOps

\* a POST that asks for remux, by name or by leaving the operation out
RemuxPost(c) == c.kind = "post" /\ c.event.operation \in {"remux", None}

\* C19: a remux request runs inside the request whether or not a queue is
\* configured: it writes no status, enqueues no message, and ends with the
\* remux handler's own response; no queued status ever names remux, and the
\* worker never runs a queue-delivered remux message.
C19_RemuxNeverQueued ==
    /\ \A j \in AllIds : \A k \in 1..Len(hist[j]) :
            (hist[j][k].status = "queued" /\ "operation" \in DOMAIN hist[j][k].metadata)
                => hist[j][k].metadata.operation # "remux"
    /\ \A h \in Inst :
        LET c == ctx[h]
        IN  /\ RemuxPost(c)
                    => /\ c.pc \in RemuxPcs \cup {"done"}
                       /\ c.effects \cap {"status", "enqueue"} = {}
                       /\ c.wrote = <<>>
                       /\ (c.pc = "done" /\ nfaults = 0) => c.resp.statusCode \in {200, 400}
            /\ c.kind = "sqs"
                    => /\ c.pc \notin RemuxPcs
                       /\ (c.pc = "done" /\ c.rec <= Len(c.batch)
                            /\ c.batch[c.rec].operation = "remux")
                               => c.resp = HandlerError("Unknown operation")

\* a remux request answered 200 while a queue is configured
C19_Witness ==
    \E h \in Inst :
        /\ RemuxPost(ctx[h]) /\ queue_url
        /\ ctx[h].pc = "done"
        /\ ctx[h].resp.statusCode = 200

\* a finished remux request that named its input object
RemuxDone(c) ==
    /\ c.pc = "done" /\ c.kind = "post"
    /\ c.data.operation \notin AsyncOps
    /\ Truthy(c.data.input_key)

\* C20: a remux request with all required fields: when the tool is there
\* and its invocation fails, the handler copies the object and answers 200
\* with operation s3_copy_fallback and the error text; when the tool is
\* missing it copies the object and reports s3_copy; when the tool succeeds
\* it uploads the remuxed file and reports ffmpeg_copy.  Whenever 200 is
\* returned the output object exists.
C20_RemuxFallback ==
    \A h \in Inst :
        LET c == ctx[h]
            ok == c.resp.statusCode = 200
        IN  RemuxDone(c)
                => /\ nfaults = 0 => ok
                   /\ ok => RemuxKey(c.data) \in artifacts
                   /\ (ok /\ ~ffmpeg)
                        => /\ c.resp.body = [operation |-> "s3_copy"]
                           /\ c.effects = {"copy"}
                   /\ c.e = "TransformError"
                        => /\ ffmpeg
                           /\ ok \/ c.resp = HandlerError("CopyError")
                           /\ ok => /\ c.resp.body = [operation |-> "s3_copy_fallback",
                                                      error |-> "TransformError"]
                                    /\ "copy" \in c.effects
                   /\ (ok /\ ffmpeg /\ c.e = None)
                        => /\ c.resp.body = [operation |-> "ffmpeg_copy"]
                           /\ {"transform", "upload"} \subseteq c.effects
                           /\ "copy" \notin c.effects

\* the tool failed and the fallback copy answered 200
C20_Witness ==
    \E h \in Inst :
        /\ RemuxDone(ctx[h])
        /\ ctx[h].e = "TransformError"
        /\ ctx[h].resp.statusCode = 200

\* ------------------------------------------------------------------
\* C21: a handler that finds a required field missing or the transform tool
\* absent ends before its first step: it has written no status record, made
\* no scratch directory and done no fetch, transform or upload, and it hands
\* the error to its caller (raised in worker mode when a field is missing,
\* a 400 result otherwise); a handler that got past these tests had its
\* fields and the tool.
EndedEarly(c) ==
    /\ c.ip = 0
    /\ \/ c.kind = "sqs" /\ c.pc = "sqs_loop" /\ c.rec > 1
       \/ c.kind = "sqs" /\ c.pc = "done" /\ c.op_raised # None
       \/ c.kind = "post" /\ c.pc = "done" /\ ~queue_url
                          /\ c.event.operation \in AsyncOps

C21_EarlyErrorsNoSideEffects ==
    \A h \in Inst :
        LET c == ctx[h]
        IN  /\ EndedEarly(c) =>
                /\ c.wrote = <<>>
                /\ c.effects = {}
                /\ ~Valid(c.data) \/ ~ffmpeg
                /\ IF ~Valid(c.data)
                   THEN IF c.worker_mode
                        THEN c.op_raised = ValidationMessage(c.data.operation)
                        ELSE c.ret = BadRequest(ValidationMessage(c.data.operation))
                   ELSE c.ret = BadRequest("FFmpeg not available")
            /\ Executed(c) => Valid(c.data) /\ ffmpeg
            /\ (c.kind = "post" /\ c.pc = "done"
                /\ c.resp = BadRequest("Missing required fields")) => c.effects = {}

\* a worker raised on a missing field of a message whose job already had a
\* stored status record
C21_Witness ==
    \E h \in Inst :
        /\ EndedEarly(ctx[h])
        /\ ctx[h].worker_mode
        /\ ctx[h].op_raised # None
        /\ \E j \in AllIds : Len(hist[j]) >= 1

\* ------------------------------------------------------------------
\* the execution in slot c ended with a terminal write for a job id under
\* which an earlier, finished attempt had already stored a terminal record
Earlier(c) == SubSeq(hist[c.job_id], 1, Len(hist[c.job_id]) - Len(c.wrote))

SecondAttempt(c) ==
    /\ Executed(c)
    /\ Len(c.wrote) >= 1
    /\ Terminal(Last(c.wrote))
    /\ \E k \in 1..Len(Earlier(c)) : Terminal(Earlier(c)[k])

\* C23: when a job id is processed again after an earlier attempt ended, the
\* records of the earlier attempt stay in the history before those of the
\* later one, and once the later attempt has ended a status query for the id
\* answers 200 with the terminal record the later attempt wrote.
C23_LatestAttemptWins ==
    \A h \in Inst :
        LET c == ctx[h]
        IN  SecondAttempt(c)
                => /\ hist[c.job_id] = Earlier(c) \o c.wrote
                   /\ StatusResponse(GetJobStatus(<<c.job_id>>, TRUE))
                          = [statusCode |-> 200, body |-> Last(c.wrote)]

\* a redelivered message completed after the first delivery had failed
C23_Witness ==
    \E h \in Inst :
        /\ SecondAttempt(ctx[h])
        /\ ctx[h].kind = "sqs"
        /\ Last(ctx[h].wrote).status = "completed"
        /\ \E k \in 1..Len(Earlier(ctx[h])) : Earlier(ctx[h])[k].status = "failed"

\* ------------------------------------------------------------------
\* a synchronous request whose handler met a fetch, transform or upload error
SyncStageError(c) ==
    /\ c.kind = "post"
    /\ c.pc = "done"
    /\ c.ip >= 1
    /\ ~c.worker_mode
    /\ c.e \in {"FetchError", "TransformError", "UploadError"}

\* C24: a synchronous request whose handler meets a fetch, transform or
\* upload error ends with a returned response, never a raised exception; the
\* response has a 5xx status and its body carries the message of that error.
C24_SyncErrorReported ==
    \A h \in Inst :
        LET c == ctx[h]
        IN  SyncStageError(c)
                => /\ c.outcome = "returned"
                   /\ c.resp.statusCode \in 500..599
                   /\ c.resp.body.error.msg = c.e

\* ------------------------------------------------------------------
\* the positions inside an operation handler called by handler()
HandlerPcs == {"validate", "body", "except"}

\* C25: a queue-delivered message without an operation field is run by the
\* merge handler in worker mode and is never refused as an unknown operation;
\* a direct invocation without an operation field runs the remux handler and
\* no other; a direct invocation naming one of the five async-capable
\* operations is enqueued when a queue is configured and run inline otherwise,
\* and never reaches the remux handler.
C25_RoutingDefaults ==
    \A h \in Inst :
        LET c == ctx[h]
        IN  /\ (c.kind = "sqs" /\ c.rec \in 1..Len(c.batch)
                    /\ c.batch[c.rec].operation = None)
                => /\ c.pc \in HandlerPcs => c.data.operation = "merge" /\ c.worker_mode
                   /\ c.pc = "done" => c.resp # HandlerError("Unknown operation")
            /\ (c.kind = "post" /\ c.event.operation = None)
                => c.pc \in RemuxPcs \cup {"done"} /\ c.ip = 0 /\ c.job_id = None
            /\ (c.kind = "post" /\ c.event.operation \in AsyncOps)
                => /\ c.pc \notin RemuxPcs
                   /\ "copy" \notin c.effects
                   /\ IF queue_url
                      THEN c.pc \in {"enqueue_status", "enqueue_send", "done"} /\ c.ip = 0
                      ELSE /\ c.pc \in HandlerPcs \cup {"done"}
                           /\ "enqueue" \notin c.effects
                           /\ ~c.worker_mode

\* a message without an operation field is being merged by the worker
C25_Witness ==
    \E h \in Inst :
        /\ ctx[h].kind = "sqs"
        /\ ctx[h].pc = "body"
        /\ ctx[h].batch[ctx[h].rec].operation = None
        /\ ctx[h].data.operation = "merge"
        /\ ctx[h].worker_mode

\* ------------------------------------------------------------------
\* C30 in its finite form: once the queue is drained and no invocation runs,
\* in a run where every external call returned and the queue held only this
\* service's own messages, every queued record (written on the way to a 202)
\* is followed under its job id by a completed or failed record.
C30_AckedJobTerminates ==
    (Quiescent /\ nfaults = 0 /\ nforeign = 0)
        => \A j \in AllIds : \A k \in 1..Len(hist[j]) :
               hist[j][k].status = "queued"
                   => \E m \in (k + 1)..Len(hist[j]) : Terminal(hist[j][m])

\* ==================================================================
\* The status store on its own: _save_job_status called with any job id,
\* status, metadata and progress, and _get_job_status reading it back.
\* Progress values are rationals <<num, den>> with a denominator that is a
\* power of two, which a float holds exactly.
SaveIds == {"a", GenId(1)}

SaveStatuses == {"processing", "completed"}

SaveMetadata(status) ==
    IF status = "completed" THEN [download_url |-> "out.mp4"] ELSE [stage |-> "downloaded"]

SaveProgress ==
    {None, <<-5, 1>>, <<0, 1>>, <<1, 4>>, <<50, 1>>, <<399, 4>>, <<100, 1>>,
     <<401, 4>>, <<250, 1>>}

InitStore == Init /\ ~queue_url /\ ~ffmpeg

\* _save_job_status(job_id, status, metadata, progress)
SaveJobStatus(h, job_id, status, progress) ==
    /\ Len(hist["a"]) + Len(hist[GenId(1)]) < MaxSaves
    /\ PutStatus(StatusData(job_id, status, SaveMetadata(status), progress))
    /\ Set(h, [IdleCtx EXCEPT !.pc = "saved", !.kind = "save", !.job_id = job_id,
                              !.data = [status |-> status,
                                        metadata |-> SaveMetadata(status),
                                        progress |-> progress]])
    /\ UNCHANGED <<queue_url, ffmpeg, artifacts, queue,
                   nposts, nforeign, ndups, nfaults, ngen>>

\* _get_job_status(job_id) with the store readable
ReadJobStatus(h, job_id) ==
    /\ Set(h, [IdleCtx EXCEPT !.pc = "read", !.kind = "get", !.job_id = job_id,
                              !.lookup = GetJobStatus(<<job_id>>, TRUE)])
    /\ UNCHANGED <<queue_url, ffmpeg, store, hist, artifacts, queue,
                   nposts, nforeign, ndups, nfaults, ngen>>

NextStore ==
    \/ \E h \in Inst, j \in SaveIds, st \in SaveStatuses, p \in SaveProgress :
           SaveJobStatus(h, j, st, p)
    \/ \E h \in Inst, j \in SaveIds : ReadJobStatus(h, j)

SpecStore == InitStore /\ [][NextStore]_vars

\* the stored progress t (in tenths) is the given p = num/den brought into
\* [0, 100] and rounded to the nearest tenth
ClampedTo(t, p) ==
    /\ t \in 0..1000
    /\ p[1] < 0 => t = 0
    /\ p[1] > 100 * p[2] => t = 1000
    /\ (p[1] >= 0 /\ p[1] <= 100 * p[2])
           => /\ 2 * (t * p[2] - 10 * p[1]) <= p[2]
              /\ 2 * (10 * p[1] - t * p[2]) <= p[2]

\* C26: after a save for a job id the stored record is exactly the one just
\* given (its status and metadata, and a progress key only if a progress was
\* given: nothing of the record it replaces is kept), a progress given is
\* stored clamped to [0, 100], and every progress that is stored or read back
\* lies in [0, 100].
C26_SaveReplacesAndClamps ==
    /\ \A j \in AllIds :
           /\ hist[j] # <<>> => store[j] = Last(hist[j])
           /\ HasProgress(store[j]) => store[j].progress \in 0..1000
    /\ \A h \in Inst :
           LET c == ctx[h]
           IN  /\ c.pc = "saved"
                   => /\ store[c.job_id].job_id = c.job_id
                      /\ store[c.job_id].status = c.data.status
                      /\ store[c.job_id].metadata = c.data.metadata
                      /\ IF c.data.progress = None
                         THEN DOMAIN store[c.job_id] = {"job_id", "status", "metadata"}
                         ELSE /\ DOMAIN store[c.job_id]
                                    = {"job_id", "status", "metadata", "progress"}
                              /\ ClampedTo(store[c.job_id].progress, c.data.progress)
               /\ (c.pc = "read" /\ c.lookup # NoRecord)
                   => /\ c.lookup = store[c.job_id]
                      /\ HasProgress(c.lookup) => c.lookup.progress \in 0..1000

\* a record stored with a progress was replaced by a save without one, after
\* a save whose progress of 250 had been stored as 100
C26_Witness ==
    \E h \in Inst :
        /\ ctx[h].pc = "saved"
        /\ ctx[h].data.progress = None
        /\ Len(hist[ctx[h].job_id]) = 2
        /\ hist[ctx[h].job_id][1].status = "completed"
        /\ HasProgress(hist[ctx[h].job_id][1])
        /\ hist[ctx[h].job_id][1].progress = 1000
        /\ ~HasProgress(store[ctx[h].job_id])
        /\ store[ctx[h].job_id].status = "processing"

\* ==================================================================
\* The handlers' helpers on their own: _input_has_audio with the ffmpeg
\* arguments that depend on its answer, _download_video_from_url, and the
\* drawtext chain of the caption handler, each called with inputs drawn
\* from the sets below.

\* ------------------------------------------------- _input_has_audio
\* what running ffprobe can do: it cannot be started (subprocess.run
\* raises), or it ends with a return code and some text on stdout
Whitespace == {" ", "\n"}

ProbeStdout == {<<>>, <<"\n">>, <<"1">>, <<"1", "\n">>, <<" ", "1">>, <<"1", "\n", "2">>}

ProbeRuns ==
    {[started |-> FALSE, returncode |-> 0, stdout |-> <<>>]}
    \cup [started : {TRUE}, returncode : {0, 1}, stdout : ProbeStdout]

FfprobePaths == {None, "/usr/bin/ffprobe"}

\* str.strip(): leading and trailing whitespace removed
RECURSIVE LStrip(_)
LStrip(s) == IF s # <<>> /\ Head(s) \in Whitespace THEN LStrip(Tail(s)) ELSE s

RECURSIVE RStrip(_)
RStrip(s) ==
    IF s # <<>> /\ s[Len(s)] \in Whitespace THEN RStrip(SubSeq(s, 1, Len(s) - 1)) ELSE s

Strip(s) == RStrip(LStrip(s))

\* _input_has_audio(input_path, ffprobe_path): subprocess.run(check=False),
\* so only a probe that cannot be started reaches the except clause
InputHasAudio(ffprobe_path, run) ==
    IF ~Truthy(ffprobe_path) THEN TRUE
    ELSE IF ~run.started THEN TRUE
    ELSE Len(Strip(run.stdout)) > 0

\* the lavfi input anullsrc=r=44100:cl=stereo
Anullsrc == [r |-> 44100, cl |-> "stereo"]

ProbingOps == {"merge", "caption", "add-audio"}

\* the arguments of the ffmpeg command that depend on has_audio: the inputs
\* after the source (and, for add-audio, the audio file), the stream the
\* output's audio is mapped from (merge maps none), the codec and -shortest
AudioArgs(op, has_audio) ==
    CASE op = "merge" ->
            [lavfi |-> IF has_audio THEN <<>> ELSE <<Anullsrc>>,
             audio_from |-> "default",
             codec |-> "aac", shortest |-> ~has_audio]
      [] op = "caption" ->
            [lavfi |-> IF has_audio THEN <<>> ELSE <<Anullsrc>>,
             audio_from |-> IF has_audio THEN "0:a" ELSE "1:a",
             codec |-> IF has_audio THEN "copy" ELSE "aac", shortest |-> ~has_audio]
      [] op = "add-audio" ->
            [lavfi |-> IF has_audio THEN <<>> ELSE <<Anullsrc>>,
             audio_from |-> IF has_audio THEN "[0:a][bg]amix" ELSE "[2:a][bg]amix",
             codec |-> "aac", shortest |-> TRUE]

InitTools == Init /\ ~queue_url /\ ffmpeg

\* has_audio = _input_has_audio(...), then the command built from it
Probe(h, op, ffprobe_path, run) ==
    /\ CanStart(h)
    /\ Set(h, [IdleCtx EXCEPT !.pc = "probed", !.kind = "probe",
                              !.data = [operation |-> op, ffprobe_path |-> ffprobe_path,
                                        run |-> run],
                              !.ret = [has_audio |-> InputHasAudio(ffprobe_path, run),
                                       cmd |-> AudioArgs(op, InputHasAudio(ffprobe_path, run))]])
    /\ UNCHANGED <<queue_url, ffmpeg, store, hist, artifacts, queue,
                   nposts, nforeign, ndups, nfaults, ngen>>

\* --------------------------------------------- _download_video_from_url
\* a URL after urlparse: the host as its dot-separated labels, the path as
\* its slash-separated segments (leading slashes stripped)
Url(host, path) == [host |-> host, path |-> path]

Urls ==
    {Url(<<"bucket", "s3", "us-east-1", "amazonaws", "com">>, <<"k.mp4">>),
     Url(<<"bucket", "s3", "amazonaws", "com">>, <<"dir", "k.mp4">>),
     Url(<<"s3", "amazonaws", "com">>, <<"bucket", "dir", "k.mp4">>),
     Url(<<"s3", "amazonaws", "com">>, <<"bucket">>),
     Url(<<"s3", "example", "com">>, <<"a", "b.mp4">>),
     Url(<<"bucket", "s3-us-west-2", "amazonaws", "com">>, <<"k.mp4">>),
     Url(<<"cdn", "s3", "example", "com">>, <<"k.mp4">>),
     Url(<<"example", "com">>, <<"v.mp4">>)}

\* what the outside world does to each strategy, and whether curl is installed
CurlPaths == {None, "/usr/bin/curl"}

FetchEnvs == [s3 : BOOLEAN, http : BOOLEAN, curl_path : CurlPaths, curl : BOOLEAN]

\* host.endswith('.amazonaws.com') and '.s3.' in host
VirtualHosted(url) ==
    LET n == Len(url.host)
    IN  /\ n >= 3
        /\ url.host[n - 1] = "amazonaws"
        /\ url.host[n] = "com"
        /\ \E k \in 2..(n - 1) : url.host[k] = "s3"

\* host.startswith('s3.') and '/' in path
PathStyle(url) ==
    /\ Len(url.host) >= 2
    /\ url.host[1] = "s3"
    /\ Len(url.path) >= 2

\* host.split('.s3.')[0]: the labels before the first inner label s3
BucketOfHost(host) ==
    LET k == CHOOSE k \in 2..(Len(host) - 1) :
                 host[k] = "s3" /\ \A m \in 2..(k - 1) : host[m] # "s3"
    IN  SubSeq(host, 1, k - 1)

\* s3.download_file(bucket, key, output_path); its exception leaves the function
S3Download(bucket, key, env) ==
    [tried |-> <<"s3">>, bucket |-> bucket, key |-> key,
     result |-> IF env.s3 THEN "ok" ELSE "S3Error"]

\* the except clause with curl looked for under no name at all
HttpFailed_noLookup(env) ==
    [tried |-> <<"http", "curl">>, bucket |-> <<>>, key |-> <<>>,
     result |-> IF env.curl THEN "ok" ELSE "curl download failed"]

\* except Exception: curl if it is installed, the HTTP error again if not
HttpFailed(env) ==
    IF Truthy(env.curl_path)
    THEN [tried |-> <<"http", "curl">>, bucket |-> <<>>, key |-> <<>>,
          result |-> IF env.curl THEN "ok" ELSE "curl download failed"]
    ELSE [tried |-> <<"http">>, bucket |-> <<>>, key |-> <<>>, result |-> "HTTPError"]

\* _download_video_from_url(url, output_path): the strategies tried, in
\* order, and how the call ends ("ok", or the error it raises)
DownloadVideoFromUrl(url, env) ==
    IF VirtualHosted(url)
    THEN S3Download(BucketOfHost(url.host), url.path, env)
    ELSE IF PathStyle(url)
    THEN S3Download(<<Head(url.path)>>, Tail(url.path), env)
    ELSE IF env.http
    THEN [tried |-> <<"http">>, bucket |-> <<>>, key |-> <<>>, result |-> "ok"]
    ELSE HttpFailed(env)

Download(h, url, env) ==
    /\ CanStart(h)
    /\ Set(h, [IdleCtx EXCEPT !.pc = "fetched", !.kind = "download",
                              !.data = [url |-> url, env |-> env],
                              !.ret = DownloadVideoFromUrl(url, env)])
    /\ UNCHANGED <<queue_url, ffmpeg, store, hist, artifacts, queue,
                   nposts, nforeign, ndups, nfaults, ngen>>

\* --------------------------------- _handle_caption_operation: drawtext
MaxText == 3        \* characters of a caption text

\* a caption text: its characters, "\n" the newline
CaptionChars == {"x", "y", "\n"}

CaptionTexts == UNION {[1..n -> CaptionChars] : n \in 1..MaxText}

\* caption.size and caption.line_spacing as rationals <<num, den>>, not negative
FontSizes == {<<24, 1>>, <<49, 2>>, <<36, 1>>}

LineSpacings == {<<10, 1>>, <<5, 2>>}

Positions == {"top", "bottom", "center", "left"}

\* int(x) of a rational that is not negative: the integer part
Trunc(p) == p[1] \div p[2]

\* str.split("\n")
RECURSIVE Split(_)
Split(s) ==
    IF s = <<>> THEN << <<>> >>
    ELSE IF Head(s) = "\n" THEN << <<>> >> \o Split(Tail(s))
    ELSE << <<Head(s)>> \o Head(Split(Tail(s))) >> \o Tail(Split(Tail(s)))

\* y0_expr: the top of the block of lines, by named position; any other
\* name keeps the centred default
Y0Expr(position, total_height) ==
    CASE position = "top" -> [expr |-> "20", total_height |-> 0]
      [] position = "bottom" -> [expr |-> "h-T-20", total_height |-> total_height]
      [] OTHER -> [expr |-> "(h-T)/2", total_height |-> total_height]

\* f"v{i}"
Label(i) == "v" \o ToString(i)

\* for i, line in enumerate(lines): one drawtext filter per line, from
\* in_label to out_label, at y0_expr + i * line_height
RECURSIVE DrawLoop(_, _, _, _, _, _, _)
DrawLoop(lines, i, in_label, out_label, filters, y0_expr, line_height) ==
    IF i >= Len(lines) THEN [filters |-> filters, in_label |-> in_label]
    ELSE DrawLoop(lines, i + 1, out_label, Label(i + 1),
                  Append(filters, [input |-> in_label, text |-> lines[i + 1],
                                   y0 |-> y0_expr, dy |-> i * line_height,
                                   output |-> out_label]),
                  y0_expr, line_height)

\* the command with the first filter's output mapped
CaptionCommand_mapFirst(text, font_size, line_spacing, position, has_audio) ==
    LET lines == Split(text)
        line_height == Trunc(font_size) + Trunc(line_spacing)
        total_height == Len(lines) * line_height
        loop == DrawLoop(lines, 0, "0:v", "v0", <<>>,
                         Y0Expr(position, total_height), line_height)
    IN  [filter_complex |-> loop.filters, map_video |-> loop.filters[1].output,
         audio |-> AudioArgs("caption", has_audio)]

\* lines, line_height, total_height, the filter chain and the -map arguments
CaptionCommand(text, font_size, line_spacing, position, has_audio) ==
    LET lines == Split(text)
        line_height == Trunc(font_size) + Trunc(line_spacing)
        total_height == Len(lines) * line_height
        loop == DrawLoop(lines, 0, "0:v", "v0", <<>>,
                         Y0Expr(position, total_height), line_height)
    IN  [filter_complex |-> loop.filters, map_video |-> loop.in_label,
         audio |-> AudioArgs("caption", has_audio)]

Caption(h, text, font_size, line_spacing, position, has_audio) ==
    /\ CanStart(h)
    /\ Set(h, [IdleCtx EXCEPT !.pc = "captioned", !.kind = "caption",
                              !.data = [text |-> text, size |-> font_size,
                                        line_spacing |-> line_spacing,
                                        position |-> position, has_audio |-> has_audio],
                              !.ret = CaptionCommand(text, font_size, line_spacing,
                                                     position, has_audio)])
    /\ UNCHANGED <<queue_url, ffmpeg, store, hist, artifacts, queue,
                   nposts, nforeign, ndups, nfaults, ngen>>

\* the helper has returned to its caller
ToolReturn(h) ==
    /\ ctx[h].pc \in {"probed", "fetched", "captioned"}
    /\ Set(h, IdleCtx)
    /\ UNCHANGED <<queue_url, ffmpeg, store, hist, artifacts, queue,
                   nposts, nforeign, ndups, nfaults, ngen>>

NextTools ==
    \/ \E h \in Inst : ToolReturn(h)
    \/ \E h \in Inst, op \in ProbingOps, f \in FfprobePaths, run \in ProbeRuns :
           Probe(h, op, f, run)
    \/ \E h \in Inst, url \in Urls, env \in FetchEnvs : Download(h, url, env)
    \/ \E h \in Inst, text \in CaptionTexts, size \in FontSizes, sp \in LineSpacings,
          pos \in Positions, has_audio \in BOOLEAN :
           Caption(h, text, size, sp, pos, has_audio)

SpecTools == InitTools /\ [][NextTools]_vars

\* a probe that did not work: no tool, not started, or ended with an error
ProbeFailed(d) ==
    \/ ~Truthy(d.ffprobe_path)
    \/ ~d.run.started
    \/ d.run.returncode # 0

\* C27: when the probe tool is unavailable, cannot be run or exits with an
\* error, the input counts as having audio; the silent 44100 Hz stereo track
\* is added to the command only after a probe that ran, exited with 0 and
\* listed no audio stream.
C27_PermissiveProbe ==
    \A h \in Inst :
        LET c == ctx[h]
        IN  c.pc = "probed"
                => /\ ProbeFailed(c.data) => c.ret.has_audio
                   /\ c.ret.cmd.lavfi # <<>>
                        => /\ c.ret.cmd.lavfi = <<[r |-> 44100, cl |-> "stereo"]>>
                           /\ ~ProbeFailed(c.data)
                           /\ \A k \in 1..Len(c.data.run.stdout) :
                                  c.data.run.stdout[k] \in Whitespace

\* the fetch ended without error
FetchOk(r) == r.result = "ok"

\* C28: a virtual-hosted or path-style storage URL is fetched through the
\* storage client and nothing else; any other URL is fetched by HTTP GET
\* first, then by curl if the GET failed and curl is installed; the fetch
\* fails only when each strategy it could use has failed, and without curl
\* the error raised is the GET's own.
C28_FetchStrategyOrder ==
    \A h \in Inst :
        LET c == ctx[h]
            url == c.data.url
            env == c.data.env
            r == c.ret
        IN  c.pc = "fetched"
                => IF VirtualHosted(url) \/ PathStyle(url)
                   THEN /\ r.tried = <<"s3">>
                        /\ FetchOk(r) <=> env.s3
                        /\ r.bucket \o r.key \in {url.path, <<url.host[1]>> \o url.path}
                   ELSE /\ r.tried[1] = "http"
                        /\ \A k \in 1..Len(r.tried) : r.tried[k] # "s3"
                        /\ env.http => r.tried = <<"http">> /\ FetchOk(r)
                        /\ (~env.http /\ Truthy(env.curl_path))
                               => /\ r.tried = <<"http", "curl">>
                                  /\ FetchOk(r) <=> env.curl
                        /\ (~env.http /\ ~Truthy(env.curl_path))
                               => r.tried = <<"http">> /\ r.result = "HTTPError"

\* a plain URL whose GET failed was fetched by curl, and another failed
\* for good with the GET's error because no curl is installed
C28_Witness ==
    \E h \in Inst :
        /\ ctx[h].pc = "fetched"
        /\ ~VirtualHosted(ctx[h].data.url)
        /\ ~PathStyle(ctx[h].data.url)
        /\ ~ctx[h].data.env.http
        /\ ctx[h].ret.tried = <<"http", "curl">>
        /\ FetchOk(ctx[h].ret)

\* the lines of the filters put together again with newlines between them
RECURSIVE JoinLines(_)
JoinLines(fs) ==
    IF Len(fs) = 1 THEN fs[1].text
    ELSE fs[1].text \o <<"\n">> \o JoinLines(Tail(fs))

Newlines(text) == Cardinality({k \in 1..Len(text) : text[k] = "\n"})

\* the n filters of c form one chain from the source video to the mapped
\* stream and carry the lines of the text in order, from one block top
Chained(c) ==
    LET fs == c.ret.filter_complex
        n == Newlines(c.data.text) + 1
    IN  /\ Len(fs) = n
        /\ fs[1].input = "0:v"
        /\ \A i \in 2..n : fs[i].input = fs[i - 1].output
        /\ \A i, k \in 1..n : i # k => fs[i].output # fs[k].output
        /\ \A i \in 1..n : fs[i].output # "0:v" /\ fs[i].y0 = fs[1].y0
        /\ c.ret.map_video = fs[n].output
        /\ JoinLines(fs) = c.data.text

\* C29 as stated: n chained filters for a text of n lines, the last one
\* mapped into the output, and line i (counted from 0) placed i times
\* (font size + line spacing) below the top of the block.
C29_ChainedCaptionLines ==
    \A h \in Inst :
        LET c == ctx[h]
            fs == c.ret.filter_complex
            size == c.data.size
            sp == c.data.line_spacing
        IN  c.pc = "captioned"
                => /\ Chained(c)
                   /\ \A i \in 1..Len(fs) :
                          fs[i].dy * size[2] * sp[2]
                              = (i - 1) * (size[1] * sp[2] + sp[1] * size[2])

\* C29 amended: the same chain, with line i placed i times
\* (int(font size) + int(line spacing)) below the top of the block.
C29_ChainedCaptionLinesInt ==
    \A h \in Inst :
        LET c == ctx[h]
            fs == c.ret.filter_complex
        IN  c.pc = "captioned"
                => /\ Chained(c)
                   /\ \A i \in 1..Len(fs) :
                          fs[i].dy = (i - 1) * (Trunc(c.data.size) + Trunc(c.data.line_spacing))

\* a text of three lines, the last two empty, at a font size of 24.5
C29_Witness ==
    \E h \in Inst :
        /\ ctx[h].pc = "captioned"
        /\ ctx[h].data.text = <<"x", "\n", "\n">>
        /\ Len(ctx[h].ret.filter_complex) = 3
        /\ ctx[h].data.size = <<49, 2>>
        /\ ctx[h].ret.map_video = "v2"

\* ==================================================================
\* Two invocations at once: synchronous requests handled by two instances
\* of the function that share the scratch file system under MOUNT_PATH.
Pair == {"h1", "h2"}

\* one remux request and one overlay request whose job id is generated
PairInputs ==
    {d \in PostInputs : /\ d.operation \in {"remux", "overlay"}
                        /\ Truthy(d.input_key) \/ Truthy(d.input_url)}

InitPair ==
    /\ queue_url = FALSE
    /\ ffmpeg \in BOOLEAN
    /\ store = [j \in AllIds |-> NoRecord]
    /\ hist = [j \in AllIds |-> <<>>]
    /\ artifacts = {}
    /\ queue = <<>>
    /\ ctx = [h \in Pair |-> IdleCtx]
    /\ nposts = 0
    /\ nforeign = 0
    /\ ndups = 0
    /\ nfaults = 0
    /\ ngen = 0

\* a request reaches an instance that is not serving another one
PostPair(h, data) == ctx[h].pc = "idle" /\ Post(h, data)

NextPair ==
    \/ \E h \in Pair, data \in PairInputs : PostPair(h, data)
    \/ \E h \in Pair : Finish(h)
    \/ \E h \in Pair : Validate(h)
    \/ \E h \in Pair : SaveStatus(h)
    \/ \E h \in Pair : Mkdir(h)
    \/ \E h \in Pair : Fetch(h)
    \/ \E h \in Pair : Transform(h)
    \/ \E h \in Pair : Upload(h)
    \/ \E h \in Pair : Presign(h)
    \/ \E h \in Pair : Except(h)
    \/ \E h \in Pair : Remux(h)
    \/ \E h \in Pair : RemuxDownload(h)
    \/ \E h \in Pair : RemuxFfmpeg(h)
    \/ \E h \in Pair : RemuxUpload(h)
    \/ \E h \in Pair : RemuxCopy(h)

SpecPair == InitPair /\ [][NextPair]_vars

\* the directory name each handler gives its scratch files under MOUNT_PATH
ScratchPrefix(op) ==
    CASE op = "merge" -> "merge"
      [] op = "caption" -> "caption"
      [] op = "add-audio" -> "audio"
      [] op = "watermark" -> "watermark"
      [] op = "overlay" -> "overlay"

\* tmp_dir of the handler running in slot c
TmpDir(c) ==
    IF c.pc \in RemuxPcs THEN <<"work">>
    ELSE <<ScratchPrefix(c.data.operation), c.job_id>>

\* the handler in slot c has made its scratch directory and still works in it
UsesScratch(c) ==
    /\ c.pc \in {"body", "except", "remux_download", "remux_ffmpeg", "remux_upload"}
    /\ "mkdir" \in c.effects

\* C22: two jobs executing at the same time work in different scratch
\* directories (two executions under one and the same job id are left aside).
C22_ScratchIsolated ==
    \A h, g \in Pair :
        (/\ h # g
         /\ UsesScratch(ctx[h])
         /\ UsesScratch(ctx[g])
         /\ ctx[h].job_id # ctx[g].job_id \/ ctx[h].job_id = None)
            => TmpDir(ctx[h]) # TmpDir(ctx[g])

\* ==================================================================
\* a step that puts a queued record under job id j
WritesQueued(j) ==
    /\ Len(hist'[j]) = Len(hist[j]) + 1
    /\ Last(hist'[j]).status = "queued"

\* C31: a queued record is written by a step that sends nothing, made by a
\* request that has not yet sent its message; and in a run with a single
\* submission (and no message of another producer) the queued record is the
\* first record of its job id, so it replaces no record of the worker.
C31_QueuedBeforeEnqueue ==
    /\ []((nposts <= 1 /\ nforeign = 0)
            => \A j \in AllIds : \A k \in 1..Len(hist[j]) :
                   hist[j][k].status = "queued" => k = 1)
    /\ [][\A j \in AllIds :
             WritesQueued(j)
                 => /\ queue' = queue
                    /\ \E h \in Inst : /\ ctx[h].pc = "enqueue_status"
                                       /\ ctx'[h].pc = "enqueue_send"
                                       /\ ctx'[h].job_id = j
                                       /\ "enqueue" \notin ctx'[h].effects]_vars

\* the worker has written over the queued record of the only submission
C31_Witness ==
    /\ nposts = 1
    /\ nforeign = 0
    /\ \E j \in AllIds :
           /\ Len(hist[j]) >= 2
           /\ hist[j][1].status = "queued"
           /\ store[j].status = "processing"

\* ------------------------------------------------------------------
\* a message for job id j is visible in the queue
Enqueued(j) == \E k \in 1..Len(queue) : queue[k].job_id = j

\* a message for job id j is with a worker that has not finished with it
InFlight(j) ==
    \E h \in Inst :
        /\ ctx[h].kind = "sqs"
        /\ ctx[h].pc # "done"
        /\ \E k \in ctx[h].rec..Len(ctx[h].batch) : ctx[h].batch[k].job_id = j

\* the request that wrote the queued record of j is about to send the message
BeingSent(j) == \E h \in Inst : ctx[h].pc = "enqueue_send" /\ ctx[h].job_id = j

\* C32: a job whose stored status is queued has its message in the queue or
\* in flight to a worker (or its request is between the status write and the
\* send); a failed send leaves no queued record without a message.
C32_QueuedHasMessage ==
    \A j \in AllIds :
        store[j].status = "queued" => Enqueued(j) \/ InFlight(j) \/ BeingSent(j)

\* ------------------------------------------------------------------
\* slot h serves one and the same batch before and after the step
SameBatch(h) == ctx[h].kind = "sqs" /\ ctx'[h].kind = "sqs"

\* the invocation in slot c ended because the handler of record c.rec raised
RaisedAt(c) ==
    c.kind = "sqs" /\ c.pc = "done" /\ c.op_raised # None /\ c.rec <= Len(c.batch)

\* C33: within one invocation the records of a batch are taken in order, the
\* next one only when the handler of the one before has returned; a status
\* record written by the invocation belongs to the record being handled; when
\* a handler raises the invocation ends at that record, and a later record of
\* the batch (of another job, delivered this once) has got no status from the
\* worker.
C33_BatchInOrder ==
    /\ [](\A h \in Inst :
            LET c == ctx[h]
            IN  (RaisedAt(c) /\ ndups = 0 /\ nforeign = 0)
                    => \A k \in (c.rec + 1)..Len(c.batch) :
                           c.batch[k].job_id # c.batch[c.rec].job_id
                               => \A m \in 1..Len(hist[c.batch[k].job_id]) :
                                      hist[c.batch[k].job_id][m].status = "queued")
    /\ [][\A h \in Inst :
             SameBatch(h)
                 => /\ ctx'[h].batch = ctx[h].batch
                    /\ ctx'[h].rec \in {ctx[h].rec, ctx[h].rec + 1}
                    /\ ctx'[h].rec = ctx[h].rec + 1
                           => /\ ctx[h].pc \in HandlerPcs
                              /\ ctx'[h].pc = "sqs_loop"
                    /\ (ctx[h].op_raised = None /\ ctx'[h].op_raised # None)
                           => ctx'[h].pc = "done" /\ ctx'[h].rec = ctx[h].rec
                    /\ ctx[h].pc = "done" => ctx'[h] = ctx[h] /\ hist' = hist
                    /\ \A j \in AllIds :
                           hist'[j] # hist[j]
                               => /\ ctx[h].pc \in {"body", "except"}
                                  /\ j = ctx[h].job_id
                                  /\ Resolves(ctx[h].batch[ctx[h].rec].job_id, j)]_vars

\* the first record of a batch of two raised, and the second job, delivered
\* with it, still has nothing but its queued record
C33_Witness ==
    \E h \in Inst :
        /\ RaisedAt(ctx[h])
        /\ ctx[h].rec = 1
        /\ Len(ctx[h].batch) = 2
        /\ ctx[h].batch[2].job_id # ctx[h].batch[1].job_id
        /\ Len(hist[ctx[h].batch[2].job_id]) = 1
        /\ store[ctx[h].batch[2].job_id].status = "queued"

\* ------------------------------------------------------------------
\* a status query for job id j, the store readable, answers a terminal status
QueryTerminal(j) == Terminal(GetJobStatus(<<j>>, TRUE))

\* C34: once a status query for a job id answers completed or failed, every
\* later query for it does; stated for the ids the service generates, which
\* no caller submits a second time, so that only a repeated delivery of the
\* one message can write under them again, and for runs in which no external
\* call fails, so that the terminal status is completed.
C34_TerminalIsFinal ==
    [][\A j \in AllIds \ CallerIds :
           (nfaults' = 0 /\ QueryTerminal(j)) => QueryTerminal(j)']_vars

\* ------------------------------------------------------------------
\* the step in which the worker-mode handler of slot h rejects its message
\* before the try block
Rejects(h) ==
    /\ ctx[h].kind = "sqs"
    /\ ctx[h].pc = "validate"
    /\ ctx'[h].pc \in {"done", "sqs_loop"}

\* C35: a worker-mode handler that rejects its message before the try block
\* (field missing or tool absent) writes nothing: from the moment the record
\* is taken from the batch to the rejection the store and the history of
\* every job id stay as they were, so no failed record appears.
C35_RejectionLeavesStore ==
    [][\A h \in Inst :
           /\ Rejects(h)
                 => /\ ~Valid(ctx[h].data) \/ ~ffmpeg
                    /\ store' = store
                    /\ hist' = hist
                    /\ ctx'[h].wrote = <<>>
                    /\ "status" \notin ctx'[h].effects
           /\ (ctx[h].kind = "sqs" /\ ctx[h].pc = "sqs_loop") => store' = store /\ hist' = hist
      ]_vars

\* a rejected message whose job is still stored as queued
C35_Witness ==
    \E h \in Inst :
        /\ EndedEarly(ctx[h])
        /\ ctx[h].kind = "sqs"
        /\ ctx[h].worker_mode
        /\ Truthy(ctx[h].data.job_id)
        /\ store[ctx[h].data.job_id].status = "queued"
        /\ Len(hist[ctx[h].data.job_id]) = 1

\* ==================================================================
\* Submissions on the queue path and the status queries that follow them,
\* with a caller's job id that contains "/status/" among the inputs.
AckInputs ==
    {Payload("caption", j, 0, "in.mp4", "text", None) : j \in CallerIds}
    \cup {Payload("merge", None, MaxUrls, None, None, None)}

\* the status_url paths of the acknowledgments, and one unknown id
AckPaths ==
    {<<"status", "a">>, <<"status", "x", "status", "zz">>, <<"status", GenId(1)>>,
     <<"status", "zz">>}

InitAck == Init /\ queue_url

NextAck ==
    \/ \E h \in Inst, data \in AckInputs : Post(h, data)
    \/ \E h \in Inst : EnqueueStatus(h)
    \/ \E h \in Inst : EnqueueSend(h)
    \/ \E h \in Inst, p \in AckPaths : Get(h, p)
    \/ \E h \in Inst, k \in 1..MaxBatch : ReceiveBatch(h, k)
    \/ \E h \in Inst : DuplicateDelivery(h)
    \/ \E h \in Inst : SqsRecord(h)
    \/ \E h \in Inst : SqsDone(h)
    \/ \E h \in Inst : Finish(h)
    \/ \E h \in Inst : Validate(h)
    \/ \E h \in Inst : SaveStatus(h)
    \/ \E h \in Inst : Mkdir(h)
    \/ \E h \in Inst : Fetch(h)
    \/ \E h \in Inst : Transform(h)
    \/ \E h \in Inst : Upload(h)
    \/ \E h \in Inst : Presign(h)
    \/ \E h \in Inst : Except(h)

SpecAck == InitAck /\ [][NextAck]_vars

\* a submission under the job id the segments spell was acknowledged: its
\* queued record was written, and no external call of the run failed
Acknowledged(id) ==
    /\ IdText(id) \in AllIds
    /\ nfaults = 0
    /\ \E k \in 1..Len(hist[IdText(id)]) : hist[IdText(id)][k].status = "queued"

\* C36: a status query for the job id of an acknowledged submission, the
\* store being readable, finds a record: it is answered neither 404 'Job not
\* found' nor the health response.
C36_AckedJobFound ==
    \A h \in Inst :
        LET c == ctx[h]
        IN  (StatusQuery(c) /\ c.lookup = "read" /\ Acknowledged(RequestedId(c.event)))
                => c.resp # JobNotFound /\ c.resp # Health

====
